---- MODULE Spec2Model ----
(***************************************************************************)
(* The historical generation / load / emissions pipeline of the repository *)
(* as a state machine: the aggregator (process_ercot_data.py) reads the    *)
(* fuel-mix workbooks of the data directory and writes the hourly table,   *)
(* the price merger (merge_price_data.py) joins hourly settlement prices   *)
(* onto that file.  Strings are TLA+ strings, handled with Len, SubSeq and *)
(* \o the way the Python code handles them.  A timestamp is the number of  *)
(* minutes since 00:00 of day 0, an hour is timestamp \div 60.  A cell is  *)
(* a tuple: <<>> is NaN (an empty CSV field), <<n, d>> the number n/d in   *)
(* lowest terms, so 0.43 is <<43, 100>> and 2 is <<2, 1>>.                 *)
(***************************************************************************)
EXTENDS Integers, Sequences, FiniteSets, TLC

\* ------------------------------------------------------------ strings

Range(s) == {s[i] : i \in 1..Len(s)}

CharAt(s, i) == SubSeq(s, i, i)

\* Python's  sub in s
Contains(s, sub) ==
  \E i \in 1..(Len(s) - Len(sub) + 1) : SubSeq(s, i, i + Len(sub) - 1) = sub

\* Python's  s.endswith(suf)
EndsWith(s, suf) ==
  /\ Len(s) >= Len(suf)
  /\ SubSeq(s, Len(s) - Len(suf) + 1, Len(s)) = suf

UPPER == "ABCDEFGHIJKLMNOPQRSTUVWXYZ"
LOWER == "abcdefghijklmnopqrstuvwxyz"

LowerChar(c) ==
  IF \E i \in 1..Len(UPPER) : CharAt(UPPER, i) = c
  THEN CharAt(LOWER, CHOOSE i \in 1..Len(UPPER) : CharAt(UPPER, i) = c)
  ELSE c

RECURSIVE Lower(_)
\* Python's  s.lower()
Lower(s) == IF s = "" THEN "" ELSE LowerChar(CharAt(s, 1)) \o Lower(SubSeq(s, 2, Len(s)))

\* The characters the model's strings use, in code-point order.
ASCII == " ()-.0123456789:ABCDEFGHIJKLMNOPQRSTUVWXYZ_abcdefghijklmnopqrstuvwxyz"

Ord(c) == CHOOSE i \in 1..Len(ASCII) : CharAt(ASCII, i) = c

RECURSIVE StrLess(_, _)
\* Python's  a < b  on strings (what list.sort compares)
StrLess(a, b) ==
  IF b = "" THEN FALSE
  ELSE IF a = "" THEN TRUE
  ELSE IF CharAt(a, 1) = CharAt(b, 1)
       THEN StrLess(SubSeq(a, 2, Len(a)), SubSeq(b, 2, Len(b)))
       ELSE Ord(CharAt(a, 1)) < Ord(CharAt(b, 1))

RECURSIVE Replace(_, _, _)
\* Python's  s.replace(old, new)  for a non-empty old
Replace(s, old, new) ==
  IF Len(s) < Len(old) THEN s
  ELSE IF SubSeq(s, 1, Len(old)) = old
       THEN new \o Replace(SubSeq(s, Len(old) + 1, Len(s)), old, new)
       ELSE CharAt(s, 1) \o Replace(SubSeq(s, 2, Len(s)), old, new)

RECURSIVE Strip(_)
\* Python's  s.strip()  (blanks are the only whitespace of the labels)
Strip(s) ==
  IF s = "" THEN ""
  ELSE IF CharAt(s, 1) = " " THEN Strip(SubSeq(s, 2, Len(s)))
  ELSE IF CharAt(s, Len(s)) = " " THEN Strip(SubSeq(s, 1, Len(s) - 1))
  ELSE s

DIGITS == "0123456789"

IsDigit(c) == \E i \in 1..Len(DIGITS) : CharAt(DIGITS, i) = c

DigitVal(c) == (CHOOSE i \in 1..Len(DIGITS) : CharAt(DIGITS, i) = c) - 1

AllDigits(s) == s # "" /\ \A i \in 1..Len(s) : IsDigit(CharAt(s, i))

RECURSIVE ToInt(_)
\* Python's  int(s)  on a string of digits
ToInt(s) ==
  IF s = "" THEN 0
  ELSE 10 * ToInt(SubSeq(s, 1, Len(s) - 1)) + DigitVal(CharAt(s, Len(s)))

\* ------------------------------------------------------------ sequences

RECURSIVE SumSeq(_)
SumSeq(s) == IF s = <<>> THEN 0 ELSE Head(s) + SumSeq(Tail(s))

RECURSIVE Flatten(_)
Flatten(ss) == IF ss = <<>> THEN <<>> ELSE Head(ss) \o Flatten(Tail(ss))

RECURSIVE Dedup(_)
\* first occurrences, in order
Dedup(s) ==
  IF s = <<>> THEN <<>>
  ELSE LET r == Dedup(SubSeq(s, 1, Len(s) - 1))
       IN  IF s[Len(s)] \in Range(r) THEN r ELSE Append(r, s[Len(s)])

Reverse(s) == [i \in 1..Len(s) |-> s[Len(s) + 1 - i]]


RECURSIVE SortStrings(_)
\* Python's sorted() on a set of distinct strings
SortStrings(S) ==
  IF S = {} THEN <<>>
  ELSE LET m == CHOOSE x \in S : \A y \in S \ {x} : StrLess(x, y)
       IN  <<m>> \o SortStrings(S \ {m})

\* ------------------------------------------------------------ cells

NaN == <<>>

Abs(n) == IF n < 0 THEN -n ELSE n

RECURSIVE GCD(_, _)
GCD(a, b) == IF b = 0 THEN a ELSE GCD(b, a % b)

\* the number n/d (d > 0) in lowest terms
Rat(n, d) == LET g == GCD(Abs(n), d) IN <<n \div g, d \div g>>

Num(n) == <<n, 1>>

IsNaN(c) == c = NaN

\* x + y and x * y on cells; NaN if either is NaN
CAdd(x, y) == IF IsNaN(x) \/ IsNaN(y) THEN NaN ELSE Rat(x[1] * y[2] + y[1] * x[2], x[2] * y[2])

CMul(x, y) == IF IsNaN(x) \/ IsNaN(y) THEN NaN ELSE Rat(x[1] * y[1], x[2] * y[2])

RECURSIVE SumCells(_)
\* pandas' sum: NaN cells are skipped, the sum of nothing is 0
SumCells(cs) ==
  IF cs = <<>> THEN Num(0)
  ELSE IF IsNaN(Head(cs)) THEN SumCells(Tail(cs))
  ELSE CAdd(Head(cs), SumCells(Tail(cs)))

\* pandas' mean: NaN cells are skipped, the mean of nothing is NaN
MeanCells(cs) ==
  LET present == SelectSeq(cs, LAMBDA c : ~IsNaN(c))
  IN  IF present = <<>> THEN NaN
      ELSE CMul(SumCells(present), Rat(1, Len(present)))


\* ------------------------------------------------------------ process_ercot_data.py

\* key and factor, in the order of the dict
EMISSION_FACTORS ==
  << <<"Coal", Rat(1, 1)>>, <<"Gas", Rat(43, 100)>>, <<"Gas-CC", Rat(4, 10)>>,
     <<"Biomass", Num(0)>>, <<"Wind", Num(0)>>, <<"Solar", Num(0)>>,
     <<"Nuclear", Num(0)>>, <<"Hydro", Num(0)>>, <<"Other", Rat(43, 100)>> >>

SHEETS ==
  <<"Jan", "Feb", "Mar", "Apr", "May", "Jun", "Jul", "Aug", "Sep", "Oct", "Nov", "Dec">>

IsReportFile(f) == Contains(Lower(f), "intgenbyfuel") /\ EndsWith(f, ".xlsx")

\* the matching names in listing order, without the sort
ScanFilesUnsorted(listing) == SelectSeq(listing, IsReportFile)

\* files: the matching names of the directory listing, sorted
ScanFiles(listing) == SortStrings(Range(SelectSeq(listing, IsReportFile)))

\* re.search(r'20[2-3][0-9]', file) matches at position i
YearMatchAt(f, i) ==
  /\ i + 3 <= Len(f)
  /\ SubSeq(f, i, i + 1) = "20"
  /\ CharAt(f, i + 2) \in {"2", "3"}
  /\ IsDigit(CharAt(f, i + 3))

\* the year of the first match, -1 when there is none
YearOf(f) ==
  IF \E i \in 1..Len(f) : YearMatchAt(f, i)
  THEN LET m == CHOOSE i \in 1..Len(f) :
                  YearMatchAt(f, i) /\ \A j \in 1..(i - 1) : ~YearMatchAt(f, j)
       IN  ToInt(SubSeq(f, m, m + 3))
  ELSE -1

\* any year the pattern matches taken as supported
YearInPattern(f) == YearOf(f) # -1

YearSupported(f) == YearOf(f) # -1 /\ 2020 <= YearOf(f) /\ YearOf(f) <= 2024

ID_VARS == <<"Date", "Fuel">>

\* the Total column melted with the interval columns
ValueVarsWithTotal(cols) ==
  SelectSeq(cols, LAMBDA c : c \notin Range(ID_VARS) /\ c # "Settlement Type")

ValueVars(cols) ==
  SelectSeq(cols, LAMBDA c : c \notin Range(ID_VARS) /\ c \notin {"Settlement Type", "Total"})

\* df_raw.melt: one record per value column and raw row, column by column
Melt(sheet) ==
  LET vv == ValueVars(sheet.cols)
  IN  Flatten([j \in 1..Len(vv) |->
        [i \in 1..Len(sheet.rows) |->
          [Date |-> sheet.rows[i]["Date"], Fuel |-> sheet.rows[i]["Fuel"],
           Time |-> vv[j], MW |-> sheet.rows[i][vv[j]]]]])

KeyLess(a, b) == a.Date < b.Date \/ (a.Date = b.Date /\ StrLess(a.Time, b.Time))

RECURSIVE SortKeys(_)
SortKeys(S) ==
  IF S = {} THEN <<>>
  ELSE LET m == CHOOSE x \in S : \A y \in S \ {x} : KeyLess(x, y)
       IN  <<m>> \o SortKeys(S \ {m})

\* aggfunc='sum' on the MW values of one (Date, Time, Fuel) group
AggSum(hits) == Num(SumSeq([i \in 1..Len(hits) |-> hits[i].MW]))

\* the last record of the group instead of the sum
AggLast(hits) == Num(hits[Len(hits)].MW)

AggFunc(hits) == AggSum(hits)

\* melted.pivot_table(index=['Date','Time'], columns='Fuel', values='MW',
\* aggfunc='sum').reset_index(): keys and fuel columns sorted, NaN where a
\* (Date, Time) has no record of the fuel
PivotTable(melted) ==
  LET fuels == SortStrings({r.Fuel : r \in Range(melted)})
      keys  == SortKeys({[Date |-> r.Date, Time |-> r.Time] : r \in Range(melted)})
      cell(k, f) ==
        LET hits == SelectSeq(melted,
                      LAMBDA r : r.Date = k.Date /\ r.Time = k.Time /\ r.Fuel = f)
        IN  IF hits = <<>> THEN NaN ELSE AggFunc(hits)
  IN  [cols |-> fuels,
       rows |-> [i \in 1..Len(keys) |->
                  [Date |-> keys[i].Date, Time |-> keys[i].Time,
                   v |-> [f \in Range(fuels) |-> cell(keys[i], f)]]]]

SheetRecognized(sheet) == sheet.name \in Range(SHEETS)

HasFuel(sheet) == "Fuel" \in Range(sheet.cols)

\* the sheet loop left at the first month sheet without Fuel column
LoadSheetsUntilBad(sheets) ==
  LET bad == {i \in 1..Len(sheets) : SheetRecognized(sheets[i]) /\ ~HasFuel(sheets[i])}
      upto == IF bad = {} THEN Len(sheets) ELSE (CHOOSE i \in bad : \A j \in bad : i <= j) - 1
      ok == SelectSeq(SubSeq(sheets, 1, upto), LAMBDA sh : SheetRecognized(sh) /\ HasFuel(sh))
  IN  [i \in 1..Len(ok) |-> PivotTable(Melt(ok[i]))]

\* the sheet loop of one workbook: the pivoted table of every month sheet
\* that has a Fuel column, in sheet order
LoadSheets(sheets) ==
  LET ok == SelectSeq(sheets, LAMBDA sh : SheetRecognized(sh) /\ HasFuel(sh))
  IN  [i \in 1..Len(ok) |-> PivotTable(Melt(ok[i]))]

\* the file loop: dfs after the last file
LoadFiles(files, dir) ==
  LET ok == SelectSeq(files, YearSupported)
  IN  Flatten([i \in 1..Len(ok) |-> LoadSheets(dir[ok[i]])])

\* the sheets the loop skips with "Skipping sheet ... (no Fuel col)"
SkippedSheets(files, dir) ==
  UNION {{<<f, sh.name>> : sh \in {x \in Range(dir[f]) : SheetRecognized(x) /\ ~HasFuel(x)}} :
           f \in Range(SelectSeq(files, YearSupported))}

\* pd.concat(dfs, ignore_index=True): the rows of every table in order, the
\* fuel columns in order of first appearance, NaN where a table lacks one
Concat(dfs) ==
  LET cols == Dedup(Flatten([i \in 1..Len(dfs) |-> dfs[i].cols]))
  IN  [cols |-> cols,
       rows |-> Flatten([i \in 1..Len(dfs) |->
                  [j \in 1..Len(dfs[i].rows) |->
                    LET r == dfs[i].rows[j]
                    IN  [Date |-> r.Date, Time |-> r.Time,
                         v |-> [c \in Range(cols) |->
                                 IF c \in DOMAIN r.v THEN r.v[c] ELSE NaN]]]])]

\* TimeStr after the (DST) suffix is removed
TimeStr(t) == Strip(Replace(t, " (DST)", ""))

Mask24(t) == Contains(TimeStr(t), "24:00")

NaT == -1

RECURSIVE Split(_)
\* Python's  s.split(':')
Split(s) ==
  IF ~Contains(s, ":") THEN <<s>>
  ELSE LET p == CHOOSE i \in 1..Len(s) :
                  CharAt(s, i) = ":" /\ \A j \in 1..(i - 1) : CharAt(s, j) # ":"
       IN  <<SubSeq(s, 1, p - 1)>> \o Split(SubSeq(s, p + 1, Len(s)))

\* the minute of the day of a clock string H:MM, HH:MM, H:MM:SS or HH:MM:SS,
\* NaT for anything else (hour above 23, a word, ...)
ParseClock(t) ==
  LET parts == Split(t)
  IN  IF /\ Len(parts) \in {2, 3}
         /\ \A i \in 1..Len(parts) : AllDigits(parts[i])
         /\ Len(parts[1]) \in {1, 2}
         /\ \A i \in 2..Len(parts) : Len(parts[i]) = 2 /\ ToInt(parts[i]) <= 59
         /\ ToInt(parts[1]) <= 23
      THEN ToInt(parts[1]) * 60 + ToInt(parts[2])
      ELSE NaT

\* the number of fields of the format pandas infers from a clock string: 2
\* for %H:%M, 3 for %H:%M:%S, 0 when the string is no clock time and no
\* format can be inferred
ClockFormat(t) == IF ParseClock(t) = NaT THEN 0 ELSE Len(Split(t))

\* one element of pd.to_datetime(date + ' ' + timestr, errors='coerce'):
\* with fmt = 0 the element is parsed on its own; with an inferred format it
\* is NaT unless it has exactly the fields of the format
ToDatetime(date, timestr, fmt) ==
  IF ParseClock(timestr) = NaT \/ (fmt # 0 /\ Len(Split(timestr)) # fmt) THEN NaT
  ELSE date * 1440 + ParseClock(timestr)

\* lines 100-103: the string handed to the parser
ClockStr(time) == IF Mask24(time) THEN "00:00:00" ELSE TimeStr(time)

\* a 24:00 label as 00:00:00 of the same Date
TimestampSameDay(date, time, fmt) == ToDatetime(date, ClockStr(time), fmt)

\* the Timestamp of a pivoted row: a 24:00 label is 00:00:00 of Date + 1 day
Timestamp(date, time, fmt) ==
  ToDatetime(IF Mask24(time) THEN date + 1 ELSE date, ClockStr(time), fmt)

RECURSIVE SortByTs(_)
\* sort_index: by Timestamp, equal timestamps in their order
SortByTs(rows) ==
  IF rows = <<>> THEN <<>>
  ELSE LET r == SortByTs(SubSeq(rows, 1, Len(rows) - 1))
           x == rows[Len(rows)]
           k == Cardinality({i \in 1..Len(r) : r[i].ts <= x.ts})
       IN  SubSeq(r, 1, k) \o <<x>> \o SubSeq(r, k + 1, Len(r))

\* rows that do not parse kept at 00:00 of their Date instead of dropped
StampedDefault(full, infer) ==
  LET fmt == IF infer /\ full.rows # <<>> THEN ClockFormat(ClockStr(full.rows[1].Time)) ELSE 0
      st == [i \in 1..Len(full.rows) |->
               [ts |-> IF Timestamp(full.rows[i].Date, full.rows[i].Time, fmt) = NaT
                       THEN full.rows[i].Date * 1440
                       ELSE Timestamp(full.rows[i].Date, full.rows[i].Time, fmt),
                v |-> full.rows[i].v]]
  IN  [cols |-> full.cols, rows |-> SortByTs(st)]

\* full_df indexed by Timestamp: rows that do not parse dropped, then sorted.
\* pandas 2.0 and later (infer) parses the whole column with the format of
\* its first element; earlier versions parse element by element.
Stamped(full, infer) ==
  LET fmt == IF infer /\ full.rows # <<>> THEN ClockFormat(ClockStr(full.rows[1].Time)) ELSE 0
      st == [i \in 1..Len(full.rows) |->
               [ts |-> Timestamp(full.rows[i].Date, full.rows[i].Time, fmt),
                v |-> full.rows[i].v]]
  IN  [cols |-> full.cols, rows |-> SortByTs(SelectSeq(st, LAMBDA r : r.ts # NaT))]

\* the cells of column c of the rows whose timestamp lies in hour h
HourCells(rows, c, h) ==
  LET hit == SelectSeq(rows, LAMBDA r : r.ts \div 60 = h)
  IN  [i \in 1..Len(hit) |-> hit[i].v[c]]

\* every row floored to its hour, rows of one hour not merged
ResampleNoBuckets(df) ==
  [cols |-> df.cols,
   rows |-> [i \in 1..Len(df.rows) |->
              [ts |-> (df.rows[i].ts \div 60) * 60,
               v |-> [c \in Range(df.cols) |-> SumCells(<<df.rows[i].v[c]>>)]]]]

\* the hourly table with a row only for the hours that have a cell
ResampleNoGaps(df) ==
  LET first == SelectSeq([i \in 1..Len(df.rows) |-> i], LAMBDA i :
                 i = 1 \/ df.rows[i - 1].ts \div 60 # df.rows[i].ts \div 60)
  IN  [cols |-> df.cols,
       rows |-> [k \in 1..Len(first) |->
                  [ts |-> (df.rows[first[k]].ts \div 60) * 60,
                   v |-> [c \in Range(df.cols) |->
                           SumCells(HourCells(df.rows, c, df.rows[first[k]].ts \div 60))]]]]

\* the hourly table with each cell the mean of its hour
ResampleMeanHourly(df) ==
  IF df.rows = <<>> THEN [cols |-> df.cols, rows |-> <<>>]
  ELSE LET lo == df.rows[1].ts \div 60
           hi == df.rows[Len(df.rows)].ts \div 60
       IN  [cols |-> df.cols,
            rows |-> [k \in 1..(hi - lo + 1) |->
                       [ts |-> (lo + k - 1) * 60,
                        v |-> [c \in Range(df.cols) |->
                                MeanCells(HourCells(df.rows, c, lo + k - 1))]]]]

\* the aggregation line 123 performs; the script takes no argument, option
\* or environment variable that selects another
AGG_MODES == {"sum"}

\* numeric_cols.resample('h').sum(): one row for every hour from the first
\* to the last timestamp, each fuel column the sum of its cells in the hour
Resample(df) ==
  IF df.rows = <<>> THEN [cols |-> df.cols, rows |-> <<>>]
  ELSE LET lo == df.rows[1].ts \div 60
           hi == df.rows[Len(df.rows)].ts \div 60
       IN  [cols |-> df.cols,
            rows |-> [k \in 1..(hi - lo + 1) |->
                       [ts |-> (lo + k - 1) * 60,
                        v |-> [c \in Range(df.cols) |->
                                SumCells(HourCells(df.rows, c, lo + k - 1))]]]]

\* hourly[name] = Val: a new last column, or the cells of an existing one
SetCol(h, name, vals) ==
  LET cols2 == IF name \in Range(h.cols) THEN h.cols ELSE Append(h.cols, name)
  IN  [cols |-> cols2,
       rows |-> [i \in 1..Len(h.rows) |->
                  [ts |-> h.rows[i].ts,
                   v |-> [c \in Range(cols2) |->
                           IF c = name THEN vals[i] ELSE h.rows[i].v[c]]]]]

\* hourly['Load'] = hourly.sum(axis=1)
AddLoad(h) ==
  SetCol(h, "Load",
         [i \in 1..Len(h.rows) |->
            SumCells([j \in 1..Len(h.cols) |-> h.rows[i].v[h.cols[j]]])])


\* line 135: the columns the emissions loop passes over
EmisSkip(col) == Contains(col, "Emissions") \/ col \in {"Load", "Price"}

\* the key equal to the column name instead of contained in it
FuelMatchesExact(key, col) == Lower(col) = Lower(key)

\* line 137: the fuzzy match of a factor key against a column name
FuelMatches(key, col) == Contains(Lower(col), Lower(key))

\* lines 138-140 for one matching (key, column) pair
EmisApply(h, factor, col) ==
  LET e    == "Emissions_" \o col
      sub  == [i \in 1..Len(h.rows) |-> CMul(h.rows[i].v[col], factor)]
      h2   == SetCol(h, e, sub)
  IN  SetCol(h2, "Emissions",
             [i \in 1..Len(h2.rows) |-> CAdd(h2.rows[i].v["Emissions"], h2.rows[i].v[e])])

RECURSIVE EmisCols(_, _, _, _)
\* the inner loop over the columns the table had when the loop began
EmisCols(h, k, cols, j) ==
  IF j > Len(cols) THEN h
  ELSE IF ~EmisSkip(cols[j]) /\ FuelMatches(EMISSION_FACTORS[k][1], cols[j])
       THEN EmisCols(EmisApply(h, EMISSION_FACTORS[k][2], cols[j]), k, cols, j + 1)
       ELSE EmisCols(h, k, cols, j + 1)

RECURSIVE EmisLoop(_, _)
\* the outer loop over EMISSION_FACTORS.items()
EmisLoop(h, k) ==
  IF k > Len(EMISSION_FACTORS) THEN h
  ELSE EmisLoop(EmisCols(h, k, h.cols, 1), k + 1)

\* lines 130-140
AddEmissions(h) ==
  EmisLoop(SetCol(h, "Emissions", [i \in 1..Len(h.rows) |-> Num(0)]), 1)

\* the Price column left empty instead of 0.0
AddPriceNaN(h) == SetCol(h, "Price", [i \in 1..Len(h.rows) |-> NaN])

\* hourly['Price'] = 0.0
AddPrice(h) == SetCol(h, "Price", [i \in 1..Len(h.rows) |-> Num(0)])

\* hourly with Load computed after the emissions and price columns
HourlyLoadLast(dfs, infer) ==
  AddLoad(AddPrice(AddEmissions(Resample(Stamped(Concat(dfs), infer)))))

\* lines 94-143: hourly, from dfs
Hourly(dfs, infer) ==
  AddPrice(AddEmissions(AddLoad(Resample(Stamped(Concat(dfs), infer)))))

\* DataFrame.to_csv with the index as first column: a header line and one
\* line of fields per row; a NaN cell is an empty field
ToCsv(h) ==
  [header |-> <<"Timestamp">> \o h.cols,
   lines  |-> [i \in 1..Len(h.rows) |->
                <<h.rows[i].ts>> \o [j \in 1..Len(h.cols) |-> h.rows[i].v[h.cols[j]]]]]


\* ------------------------------------------------------------ merge_price_data.py

NoFile == [absent |-> TRUE]

Pos(seq, x) == CHOOSE i \in 1..Len(seq) : seq[i] = x

Without(seq, x) == SelectSeq(seq, LAMBDA c : c # x)

\* lines 8-10: read_csv, then the Timestamp column parsed, made the index
\* and sorted; an empty field is NaN
ReadMain(file) ==
  LET cols == Without(file.header, "Timestamp")
      tpos == Pos(file.header, "Timestamp")
  IN  [cols |-> cols,
       rows |-> SortByTs([i \in 1..Len(file.lines) |->
                  [ts |-> file.lines[i][tpos],
                   v  |-> [c \in Range(cols) |-> file.lines[i][Pos(file.header, c)]]]])]

\* df_main with its Price column left in
KeepPrice(df) == df

\* lines 13-14: df_main.drop(columns=['Price']) when the column is there
DropPrice(df) ==
  IF "Price" \in Range(df.cols)
  THEN [cols |-> Without(df.cols, "Price"),
        rows |-> [i \in 1..Len(df.rows) |->
                   [ts |-> df.rows[i].ts,
                    v  |-> [c \in Range(df.cols) \ {"Price"} |-> df.rows[i].v[c]]]]]
  ELSE df

YEARS == <<2020, 2021, 2022, 2023, 2024>>

Undefined == [undefined |-> TRUE]

\* the rows of every node kept
FilterAnyNode(df) == df

\* df_p[df_p['Location'] == 'HB_NORTH'].copy()
FilterNorth(df) ==
  [df EXCEPT !.rows = SelectSeq(df.rows, LAMBDA r : r["Location"] = "HB_NORTH")]

\* df[[tcol, pcol]].rename(columns={tcol: 'Timestamp', pcol: 'Price'})
SelectRename(df, tcol, pcol) ==
  [df EXCEPT !.cols = <<"Timestamp", "Price">>,
             !.rows = [i \in 1..Len(df.rows) |->
                        [c \in {"Timestamp", "Price"} |->
                          IF c = "Timestamp" THEN df.rows[i][tcol] ELSE df.rows[i][pcol]]]]

\* minutes between US Central standard time and UTC
UTC_OFFSET == 360

\* the zone dropped with the wall clock left as it is
TzKeepLocal(df) == [df EXCEPT !.tz = FALSE]

\* dt.tz_convert(None): the UTC wall clock of each instant, without zone
TzConvertNone(df) ==
  [df EXCEPT !.tz = FALSE,
             !.rows = [i \in 1..Len(df.rows) |->
                        [df.rows[i] EXCEPT !["Timestamp"] = @ + UTC_OFFSET]]]

\* set_index('Timestamp').resample('h').mean(): one row for every hour from
\* the first to the last timestamp, Price the mean of the hour's prices
ResampleMean(df) ==
  IF df.rows = <<>> THEN [cols |-> <<"Price">>, tz |-> FALSE, indexed |-> TRUE, rows |-> <<>>]
  ELSE LET hours == {df.rows[i]["Timestamp"] \div 60 : i \in 1..Len(df.rows)}
           lo == CHOOSE h \in hours : \A g \in hours : h <= g
           hi == CHOOSE h \in hours : \A g \in hours : g <= h
           inHour(h) == SelectSeq(df.rows, LAMBDA r : r["Timestamp"] \div 60 = h)
       IN  [cols |-> <<"Price">>, tz |-> FALSE, indexed |-> TRUE,
            rows |-> [k \in 1..(hi - lo + 1) |->
                       [ts |-> (lo + k - 1) * 60,
                        v  |-> [c \in {"Price"} |->
                                 MeanCells([i \in 1..Len(inHour(lo + k - 1)) |->
                                              inHour(lo + k - 1)[i]["Price"]])]]]]

\* lines 37-54 on the table df_north holds after the Location test; the
\* result is the new df_north, price_dfs and whether the year raised
YearTail(d, price_dfs) ==
  LET fail(x) == [df_north |-> x, price_dfs |-> price_dfs, raised |-> TRUE]
      renamed ==
        IF d = Undefined \/ d.indexed THEN d
        ELSE IF "Time_Central" \in Range(d.cols) /\ "SPP" \in Range(d.cols)
             THEN SelectRename(d, "Time_Central", "SPP")
        ELSE IF "Time_Central" \notin Range(d.cols) /\ "Interval Ending" \in Range(d.cols)
                /\ "Settlement Point Price" \in Range(d.cols)
             THEN SelectRename(d, "Interval Ending", "Settlement Point Price")
        ELSE d
      selectFails ==
        /\ d # Undefined
        /\ \/ "Time_Central" \in Range(d.cols) /\ "SPP" \notin Range(d.cols)
           \/ /\ "Time_Central" \notin Range(d.cols)
              /\ "Interval Ending" \in Range(d.cols)
              /\ "Settlement Point Price" \notin Range(d.cols)
  IN  IF d = Undefined THEN fail(d)                                  \* NameError
      ELSE IF selectFails THEN fail(d)                               \* KeyError, line 38 or 44
      ELSE IF "Timestamp" \notin Range(renamed.cols) THEN fail(renamed)  \* KeyError, line 49
      ELSE IF Range(renamed.cols) # {"Timestamp", "Price"} THEN fail(renamed)  \* mean of text
      ELSE LET h == ResampleMean(IF renamed.tz THEN TzConvertNone(renamed) ELSE renamed)
           IN  [df_north |-> h, price_dfs |-> Append(price_dfs, h), raised |-> FALSE]

\* one pass of the year loop in which a file without Location column is
\* processed with all its rows
YearStepUnfiltered(st, file) ==
  IF file = NoFile THEN [st EXCEPT !.warned = @ + 1]
  ELSE IF ~file.readable THEN [st EXCEPT !.errors = @ + 1]
  ELSE LET all == [cols |-> file.cols, tz |-> file.tz, indexed |-> FALSE, rows |-> file.rows]
           d == IF "Location" \in Range(file.cols) THEN FilterNorth(all) ELSE all
           t == YearTail(d, st.price_dfs)
       IN  [df_north |-> t.df_north, price_dfs |-> t.price_dfs,
            errors |-> st.errors + (IF t.raised THEN 1 ELSE 0), warned |-> st.warned]

\* one pass of the year loop, lines 21-59
YearStep(st, file) ==
  IF file = NoFile THEN [st EXCEPT !.warned = @ + 1]
  ELSE IF ~file.readable THEN [st EXCEPT !.errors = @ + 1]           \* read_parquet raises
  ELSE LET d == IF "Location" \in Range(file.cols)
                THEN FilterNorth([cols |-> file.cols, tz |-> file.tz,
                                  indexed |-> FALSE, rows |-> file.rows])
                ELSE st.df_north
           t == YearTail(d, st.price_dfs)
       IN  [df_north |-> t.df_north, price_dfs |-> t.price_dfs,
            errors |-> st.errors + (IF t.raised THEN 1 ELSE 0), warned |-> st.warned]

RECURSIVE YearLoop(_, _, _)
YearLoop(st, dir, k) ==
  IF k > Len(YEARS) THEN st ELSE YearLoop(YearStep(st, dir[YEARS[k]]), dir, k + 1)

\* lines 16-59: the state after the loop over the years
LoadPrices(dir) ==
  YearLoop([df_north |-> Undefined, price_dfs |-> <<>>, errors |-> 0, warned |-> 0], dir, 1)

\* pd.concat(price_dfs)
ConcatPrices(price_dfs) == Flatten([i \in 1..Len(price_dfs) |-> price_dfs[i].rows])

\* an inner join: only the hours that have a price row
JoinInner(df, prices) ==
  [cols |-> Append(df.cols, "Price"),
   rows |-> Flatten([i \in 1..Len(df.rows) |->
              LET m == SelectSeq(prices, LAMBDA p : p.ts = df.rows[i].ts)
              IN  [j \in 1..Len(m) |->
                    [ts |-> df.rows[i].ts,
                     v  |-> [c \in Range(df.cols) \cup {"Price"} |->
                              IF c = "Price" THEN m[j].v["Price"] ELSE df.rows[i].v[c]]]]])]

\* df_main.join(df_prices, how='left'): every row of df_main in order, once
\* per price row of its hour, with NaN when there is none
Join(df, prices) ==
  [cols |-> Append(df.cols, "Price"),
   rows |-> Flatten([i \in 1..Len(df.rows) |->
              LET m == SelectSeq(prices, LAMBDA p : p.ts = df.rows[i].ts)
                  row(price) ==
                    [ts |-> df.rows[i].ts,
                     v  |-> [c \in Range(df.cols) \cup {"Price"} |->
                              IF c = "Price" THEN price ELSE df.rows[i].v[c]]]
              IN  IF m = <<>> THEN <<row(NaN)>>
                  ELSE [j \in 1..Len(m) |-> row(m[j].v["Price"])]])]

\* lines 67-69: reset_index, then to_csv(index=False)
WriteFinal(df) ==
  [header |-> <<"Timestamp">> \o df.cols,
   lines  |-> [i \in 1..Len(df.rows) |->
                <<df.rows[i].ts>> \o [j \in 1..Len(df.cols) |-> df.rows[i].v[df.cols[j]]]]]


\* ------------------------------------------------------------ inputs

MaxDay == 2
MaxMW == 2
MaxRows == 2
MaxPriceRows == 2
MaxPrice == 2

RECURSIVE SeqsUpTo(_, _)
\* the sequences over S of length 0..n
SeqsUpTo(S, n) ==
  IF n = 0 THEN {<<>>}
  ELSE LET shorter == SeqsUpTo(S, n - 1)
       IN  shorter \cup {Append(q, x) : q \in {r \in shorter : Len(r) = n - 1}, x \in S}

\* a raw sheet row: the interval cell under label j holds mw[j]
MkRow(date, fuel, labels, mw) ==
  [c \in {"Date", "Fuel", "Settlement Type", "Total"} \cup Range(labels) |->
     IF c = "Date" THEN date
     ELSE IF c = "Fuel" THEN fuel
     ELSE IF c = "Settlement Type" THEN "FINAL"
     ELSE IF c = "Total" THEN SumSeq(mw)
     ELSE mw[Pos(labels, c)]]

MkSheet(name, labels, rows) ==
  [name |-> name, cols |-> <<"Date", "Fuel", "Settlement Type", "Total">> \o labels,
   rows |-> rows]

\* the interval labels of the generated sheets
LABELS == <<"23:15", "23:45", "23:45 (DST)", "24:00", "Notes">>

FUELS == {"Coal", "Gas-CC", "WSL"}

\* the cells of a row: the cell under the j-th label is base + MaxMW * (j - 1),
\* so cells under different labels never hold the same value
Cells(base) == [j \in 1..Len(LABELS) |-> base + MaxMW * (j - 1)]

RawRows ==
  {MkRow(d, f, LABELS, Cells(b)) : d \in 1..MaxDay, f \in FUELS, b \in 1..MaxMW}

\* the 2020 workbook: a January sheet of 1..MaxRows rows and a sheet that
\* is no month
Book2020 ==
  {<<MkSheet("Jan", LABELS, rows), MkSheet("Summary", LABELS, <<>>)>> :
     rows \in SeqsUpTo(RawRows, MaxRows) \ {<<>>}}

\* the 2021 workbook: a sheet without Fuel column and a January sheet whose
\* date is also a date of the 2020 workbook
Book2021 ==
  << [name |-> "Feb", cols |-> <<"Date", "Fuel Type", "23:45">>,
      rows |-> << [c \in {"Date", "Fuel Type", "23:45"} |->
                     IF c = "Date" THEN 1 ELSE IF c = "Fuel Type" THEN "Coal" ELSE 1] >>],
     MkSheet("Jan", <<"23:45", "24:00">>,
             << MkRow(1, "Wind", <<"23:45", "24:00">>, <<1, 2>>),
                MkRow(1, "Gas", <<"23:45", "24:00">>, <<2, 1>>) >>) >>

\* a workbook of an unsupported year, and a file that is no workbook
Book2031 == << MkSheet("Jan", <<"23:45">>, << MkRow(1, "Coal", <<"23:45">>, <<1>>) >>) >>

F2020 == "IntGenbyFuel2020.xlsx"
F2021 == "IntGenByFuel2021.xlsx"
F2031 == "IntGenbyFuel2031.xlsx"
FNOTE == "intgenbyfuel_notes.txt"

JunkDir == [f \in {F2031, FNOTE} |-> IF f = F2031 THEN Book2031 ELSE <<>>]

DirOf(book2020, with2021) ==
  [f \in {F2020, F2031, FNOTE} \cup (IF with2021 THEN {F2021} ELSE {}) |->
     IF f = F2020 THEN book2020 ELSE IF f = F2021 THEN Book2021 ELSE JunkDir[f]]

\* four quarter-hour labels of one clock hour
HOUR_LABELS == <<"1:00", "1:15", "1:30", "1:45">>

\* a 2020 workbook whose January sheet holds one Wind row over one hour
WindBooks ==
  {<<MkSheet("Jan", HOUR_LABELS, <<MkRow(1, "Wind", HOUR_LABELS, mw)>>)>> :
     mw \in {<<10, 20, 30, 40>>, <<40, 10, 30, 20>>}}

\* a 2020 workbook whose January sheet holds a Wind and a Gas row over the
\* four quarter-hours of one hour
WindGasBooks ==
  {<<MkSheet("Jan", HOUR_LABELS,
             <<MkRow(1, "Wind", HOUR_LABELS, <<10, 20, 30, 40>>),
               MkRow(1, "Gas", HOUR_LABELS, gas)>>)>> :
     gas \in {<<1, 2, 3, 4>>, <<100, 0, 0, 0>>}}

\* the data directories, name -> sheets: no matching workbook of a supported
\* year, the 2020 workbook alone (with at most one row), both workbooks
DataDirs ==
  {JunkDir}
  \cup {DirOf(b, FALSE) : b \in WindBooks}
  \cup {DirOf(b, FALSE) : b \in {x \in Book2020 : Len(x[1].rows) <= 1}}
  \cup {DirOf(b, TRUE) : b \in Book2020}

\* the data directories whose 2020 workbook has at most one row
SmallDataDirs ==
  {d \in DataDirs : F2020 \in DOMAIN d => Len(d[F2020][1].rows) <= 1}

CoreDataDir ==
  DirOf(<<MkSheet("Jan", LABELS, <<MkRow(1, "Gas-CC", LABELS, Cells(1))>>)>>, TRUE)

\* a 2020 workbook whose first sheet has a 24:00 column alone, and whose
\* second sheet, of the day after, has a label with and without the
\* " (DST)" suffix: the first pivoted row of all is a 24:00 one
DST_LABELS == <<"3:15", "3:15 (DST)">>
DstBook ==
  << MkSheet("Jan", <<"24:00">>, << MkRow(1, "Wind", <<"24:00">>, <<4>>) >>),
     MkSheet("Feb", DST_LABELS, << MkRow(2, "Wind", DST_LABELS, <<1, 2>>) >>) >>

\* a workbook whose name holds an unsupported year before a supported one
F2Y == "IntGenbyFuel2031_2020.xlsx"
Book2Y == << MkSheet("Jan", <<"23:45">>, << MkRow(1, "Solar", <<"23:45">>, <<1>>) >>) >>

\* the core directory with that workbook beside the others, and a sheet
\* that is no month in the 2020 workbook
TwoYearDir ==
  [f \in DOMAIN CoreDataDir \cup {F2Y} |->
     IF f = F2Y THEN Book2Y
     ELSE IF f = F2020 THEN CoreDataDir[f] \o <<MkSheet("Summary", LABELS, <<>>)>>
     ELSE CoreDataDir[f]]

\* a price row of the standard schema, and of the 2023/2024 schema
StdRow(ts, loc, price) ==
  [c \in {"Time_Central", "Location", "SPP"} |->
     IF c = "Time_Central" THEN ts ELSE IF c = "Location" THEN loc ELSE Num(price)]

AltRow(ts, loc, price) ==
  [c \in {"Interval Ending", "Location", "Settlement Point Price"} |->
     IF c = "Interval Ending" THEN ts ELSE IF c = "Location" THEN loc ELSE Num(price)]

StdFile(tz, rows) ==
  [readable |-> TRUE, cols |-> <<"Time_Central", "Location", "SPP">>, tz |-> tz, rows |-> rows]

AltFile(tz, rows) ==
  [readable |-> TRUE, cols |-> <<"Interval Ending", "Location", "Settlement Point Price">>,
   tz |-> tz, rows |-> rows]

NoLocationFile ==
  [readable |-> TRUE, cols |-> <<"Time_Central", "SPP">>, tz |-> FALSE,
   rows |-> << [c \in {"Time_Central", "SPP"} |-> IF c = "Time_Central" THEN 2820 ELSE Num(1)] >>]

BrokenFile == [readable |-> FALSE, cols |-> <<>>, tz |-> FALSE, rows |-> <<>>]

\* the price timestamps: 23:05 and 23:10 of day 1, 00:05 of day 2
PRICE_TIMES == {1 * 1440 + 23 * 60 + 5, 1 * 1440 + 23 * 60 + 10, 2 * 1440 + 5}

PriceRows ==
  {StdRow(t, l, p) : t \in PRICE_TIMES, l \in {"HB_NORTH", "HB_WEST"}, p \in 1..MaxPrice}

FixedPrices == <<StdRow(1 * 1440 + 23 * 60 + 5, "HB_NORTH", 1)>>

PriceDirOf(a, b) ==
  [y \in Range(YEARS) |-> IF y = 2020 THEN a ELSE IF y = 2021 THEN b ELSE NoFile]

\* the price directories, year -> file: every 2020 file with no other year,
\* and every 2021 file beside no 2020 file, one fixed 2020 file or a 2020
\* file without Location column
PriceDirs ==
  {PriceDirOf(a, NoFile) :
     a \in {NoFile, BrokenFile, NoLocationFile, StdFile(TRUE, FixedPrices),
            AltFile(FALSE, <<AltRow(1 * 1440 + 23 * 60 + 5, "HB_NORTH", 2)>>)}
           \cup {StdFile(FALSE, rows) : rows \in SeqsUpTo(PriceRows, MaxPriceRows)}}
  \cup {PriceDirOf(a, b) :
          a \in {NoFile, StdFile(FALSE, FixedPrices), NoLocationFile},
          b \in {BrokenFile, NoLocationFile, StdFile(FALSE, FixedPrices)}}

CorePriceDir == PriceDirOf(StdFile(FALSE, FixedPrices), NoFile)

\* an output file the aggregator wrote earlier, from other workbooks
OldFile ==
  ToCsv(Hourly(LoadSheets(<<MkSheet("Jan", HOUR_LABELS,
                                    <<MkRow(2, "Wind", HOUR_LABELS, <<10, 20, 30, 40>>)>>)>>),
               FALSE))

\* temp_prices without any yearly file
NoPriceDir == PriceDirOf(NoFile, NoFile)

\* ------------------------------------------------------------ state

MaxPipelines == 2
MaxMerges == 2

VARIABLES
  strictParse, \* the installed pandas infers one datetime format per column
  dataDir,    \* the workbooks of DATA_DIR: file name -> sheets
  unreadable, \* the files of DATA_DIR that pd.ExcelFile cannot open
  priceDir,   \* the parquet files of TEMP_DIR: year -> file or NoFile
  outFile,    \* historical_gen_load_emissions_2020_2024.csv, or NoFile
  agg,        \* the run of process_ercot_data.py: its position and tables
  mrg,        \* the run of merge_price_data.py: its position and tables
  last,       \* the stage that completed most recently
  merges,     \* merger runs completed since the aggregator last wrote the file
  pipeOuts,   \* the output files left by aggregator-then-merger runs so far
  pipeRuns,   \* how many such runs completed, up to MaxPipelines
  gen,        \* the call of separate_generation_data: its input, lists and files
  cust        \* the ErcotCustomer under construction: its city and hub

vars == <<strictParse, unreadable, dataDir, priceDir, outFile, agg, mrg, last, merges, pipeOuts, pipeRuns,
          gen, cust>>

\* no call of separate_generation_data, no customer under construction
GenIdle == [pc |-> "none"]

CustIdle == [pc |-> "none"]

EmptyTable == [cols |-> <<>>, rows |-> <<>>]

AggIdle ==
  [pc |-> "idle", files |-> <<>>, dfs |-> <<>>, hourly |-> EmptyTable, skipped |-> {}]

MrgIdle ==
  [pc |-> "idle", raw |-> EmptyTable, df_main |-> EmptyTable, price_dfs |-> <<>>,
   errors |-> 0, warned |-> 0, said |-> "", afterAgg |-> FALSE]

AggRunning == agg.pc \in {"loaded", "transformed"}

MrgRunning == mrg.pc \in {"loaded", "priced"}

\* os.listdir(DATA_DIR): the names in some order
Listings(names) == {SortStrings(names), Reverse(SortStrings(names))}

\* every data directory beside one price directory, the small ones under
\* either pandas, every price directory beside one data directory, the
\* Wind and Gas workbooks without price files, one data directory with a
\* file that cannot be opened, two data directories beside an output file
\* left by an earlier run, one with a file name of two years, and one whose
\* sheet starts with a 24:00 row, under either pandas
Init ==
  /\ \/ /\ \/ dataDir \in DataDirs /\ priceDir = CorePriceDir /\ strictParse = FALSE
           \/ dataDir \in SmallDataDirs /\ priceDir = CorePriceDir /\ strictParse = TRUE
           \/ dataDir = CoreDataDir /\ priceDir \in PriceDirs /\ strictParse = FALSE
           \/ /\ dataDir \in {DirOf(b, FALSE) : b \in WindGasBooks}
              /\ priceDir = NoPriceDir
              /\ strictParse \in BOOLEAN
        /\ unreadable = {}
        /\ outFile = NoFile
     \/ /\ dataDir = CoreDataDir /\ priceDir = CorePriceDir /\ strictParse = FALSE
        /\ unreadable \in {{F2020}, {F2021}, {F2031}}
        /\ outFile = NoFile
     \/ /\ dataDir \in {JunkDir, CoreDataDir} /\ priceDir = CorePriceDir /\ strictParse = FALSE
        /\ unreadable = {}
        /\ outFile = OldFile
     \/ /\ dataDir = TwoYearDir /\ priceDir = CorePriceDir /\ strictParse = FALSE
        /\ unreadable = {}
        /\ outFile = NoFile
     \/ /\ dataDir = DirOf(DstBook, FALSE) /\ priceDir = CorePriceDir /\ strictParse \in BOOLEAN
        /\ unreadable = {}
        /\ outFile = NoFile
  /\ agg = AggIdle
  /\ mrg = MrgIdle
  /\ last = "none"
  /\ merges = 0
  /\ pipeOuts = {}
  /\ pipeRuns = 0
  /\ gen = GenIdle
  /\ cust = CustIdle

\* lines 26-92: scan the directory (os.listdir gives the names in any
\* order), loop over the files and their sheets
AggLoad ==
  /\ ~AggRunning /\ ~MrgRunning
  /\ \E listing \in Listings(DOMAIN dataDir) :
       LET files == ScanFiles(listing)
       IN  /\ IF unreadable = {} THEN TRUE
              ELSE Range(SelectSeq(files, YearSupported)) \cap unreadable = {}
           /\ agg' = [pc |-> "loaded", files |-> files, dfs |-> LoadFiles(files, dataDir),
                       hourly |-> EmptyTable, skipped |-> SkippedSheets(files, dataDir)]
  /\ mrg' = MrgIdle
  /\ UNCHANGED <<gen, cust, strictParse, unreadable, dataDir, priceDir, outFile, last, merges, pipeOuts, pipeRuns>>

\* the files of the loop before the first one that cannot be opened
BeforeUnreadable(files, bad) ==
  LET hit == {i \in 1..Len(files) : YearSupported(files[i]) /\ files[i] \in bad}
  IN  IF hit = {} THEN files
      ELSE SubSeq(files, 1, (CHOOSE i \in hit : \A j \in hit : i <= j) - 1)

\* line 39 on a workbook that cannot be opened: pd.ExcelFile raises outside
\* any try and the script ends inside the file loop
AggReadFail ==
  /\ ~AggRunning /\ ~MrgRunning
  /\ unreadable # {}
  /\ \E listing \in Listings(DOMAIN dataDir) :
       LET files == ScanFiles(listing)
           done  == BeforeUnreadable(files, unreadable)
       IN  /\ Range(SelectSeq(files, YearSupported)) \cap unreadable # {}
           /\ agg' = [pc |-> "failed", files |-> files, dfs |-> LoadFiles(done, dataDir),
                       hourly |-> EmptyTable, skipped |-> SkippedSheets(done, dataDir)]
  /\ mrg' = MrgIdle
  /\ UNCHANGED <<gen, cust, strictParse, unreadable, dataDir, priceDir, outFile, last, merges, pipeOuts, pipeRuns>>

\* no table to concatenate: an output file without rows written
AggConcatWritesEmpty ==
  /\ agg.pc = "loaded" /\ agg.dfs = <<>>
  /\ outFile' = ToCsv(EmptyTable)
  /\ agg' = [agg EXCEPT !.pc = "done"]
  /\ UNCHANGED <<gen, cust, strictParse, unreadable, dataDir, priceDir, mrg, last, merges, pipeOuts, pipeRuns>>

\* line 95 with no table to concatenate: pd.concat raises and the script ends
AggConcatFail ==
  /\ agg.pc = "loaded" /\ agg.dfs = <<>>
  /\ agg' = [agg EXCEPT !.pc = "failed"]
  /\ UNCHANGED <<gen, cust, strictParse, unreadable, dataDir, priceDir, outFile, mrg, last, merges, pipeOuts, pipeRuns>>

\* lines 94-143
AggTransform ==
  /\ agg.pc = "loaded" /\ agg.dfs # <<>>
  /\ agg' = [agg EXCEPT !.pc = "transformed", !.hourly = Hourly(agg.dfs, strictParse)]
  /\ UNCHANGED <<gen, cust, strictParse, unreadable, dataDir, priceDir, outFile, mrg, last, merges, pipeOuts, pipeRuns>>

\* the table written only where no output file exists yet
AggSaveIfAbsent ==
  /\ agg.pc = "transformed"
  /\ outFile' = IF outFile = NoFile THEN ToCsv(agg.hourly) ELSE outFile
  /\ agg' = [agg EXCEPT !.pc = "done"]
  /\ last' = "agg"
  /\ merges' = 0
  /\ UNCHANGED <<gen, cust, strictParse, unreadable, dataDir, priceDir, mrg, pipeOuts, pipeRuns>>

\* line 146
AggSave ==
  /\ agg.pc = "transformed"
  /\ outFile' = ToCsv(agg.hourly)
  /\ agg' = [agg EXCEPT !.pc = "done"]
  /\ last' = "agg"
  /\ merges' = 0
  /\ UNCHANGED <<gen, cust, strictParse, unreadable, dataDir, priceDir, mrg, pipeOuts, pipeRuns>>

\* line 8 without the file: read_csv raises and the script ends
MergeLoadFail ==
  /\ ~AggRunning /\ ~MrgRunning
  /\ outFile = NoFile
  /\ mrg' = [MrgIdle EXCEPT !.pc = "failed"]
  /\ agg' = AggIdle
  /\ UNCHANGED <<gen, cust, strictParse, unreadable, dataDir, priceDir, outFile, last, merges, pipeOuts, pipeRuns>>

\* lines 8-14
MergeLoad ==
  /\ ~AggRunning /\ ~MrgRunning
  /\ outFile # NoFile
  /\ merges < MaxMerges
  /\ LET raw == ReadMain(outFile)
     IN  mrg' = [MrgIdle EXCEPT !.pc = "loaded", !.raw = raw, !.df_main = DropPrice(raw),
                               !.afterAgg = (last = "agg")]
  /\ agg' = AggIdle
  /\ UNCHANGED <<gen, cust, strictParse, unreadable, dataDir, priceDir, outFile, last, merges, pipeOuts, pipeRuns>>

\* lines 16-59
MergePrices ==
  /\ mrg.pc = "loaded"
  /\ LET st == LoadPrices(priceDir)
     IN  mrg' = [mrg EXCEPT !.pc = "priced", !.price_dfs = st.price_dfs,
                            !.errors = st.errors, !.warned = st.warned]
  /\ UNCHANGED <<gen, cust, strictParse, unreadable, dataDir, priceDir, outFile, agg, last, merges, pipeOuts, pipeRuns>>

\* what a completed merger run adds to the record of pipeline runs
PipelineDone(file) ==
  IF mrg.afterAgg
  THEN /\ pipeOuts' = pipeOuts \cup {file}
       /\ pipeRuns' = IF pipeRuns < MaxPipelines THEN pipeRuns + 1 ELSE pipeRuns
  ELSE UNCHANGED <<pipeOuts, pipeRuns>>

\* lines 61-70
MergeJoinSave ==
  /\ mrg.pc = "priced" /\ mrg.price_dfs # <<>>
  /\ outFile' = WriteFinal(Join(mrg.df_main, ConcatPrices(mrg.price_dfs)))
  /\ mrg' = [mrg EXCEPT !.pc = "done", !.said = "Updated"]
  /\ last' = "merge"
  /\ merges' = merges + 1
  /\ PipelineDone(outFile')
  /\ UNCHANGED <<gen, cust, strictParse, unreadable, dataDir, priceDir, agg>>

\* the else branch writing the table it holds
MergeNoPriceWrites ==
  /\ mrg.pc = "priced" /\ mrg.price_dfs = <<>>
  /\ outFile' = WriteFinal(mrg.df_main)
  /\ mrg' = [mrg EXCEPT !.pc = "done", !.said = "No price data found."]
  /\ last' = "merge"
  /\ merges' = merges + 1
  /\ PipelineDone(outFile')
  /\ UNCHANGED <<gen, cust, strictParse, unreadable, dataDir, priceDir, agg>>

\* lines 71-72
MergeNoPrice ==
  /\ mrg.pc = "priced" /\ mrg.price_dfs = <<>>
  /\ mrg' = [mrg EXCEPT !.pc = "done", !.said = "No price data found."]
  /\ last' = "merge"
  /\ merges' = merges + 1
  /\ PipelineDone(outFile)
  /\ UNCHANGED <<gen, cust, strictParse, unreadable, dataDir, priceDir, outFile, agg>>

Next ==
  \/ AggLoad
  \/ AggReadFail
  \/ AggConcatFail
  \/ AggTransform
  \/ AggSave
  \/ MergeLoadFail
  \/ MergeLoad
  \/ MergePrices
  \/ MergeJoinSave
  \/ MergeNoPrice

Spec == Init /\ [][Next]_vars


\* ------------------------------------------------------------ two invocations at once
\*
\* One aggregator and one merger started against the same output path, their
\* steps interleaved in any order.  Neither script takes a lock, and to_csv
\* is no atomic replace: it opens the path for writing, which truncates the
\* file, and writes the text through a buffer in several writes, each at the
\* writer's own offset.  The file is taken here in units of lines (the
\* header is the first), and a table is written in two writes.

\* the file just opened for writing
EmptyFile == [header |-> <<>>, lines |-> <<>>]

\* the lines of a file, the header first
FileLines(file) == IF file = EmptyFile THEN <<>> ELSE <<file.header>> \o file.lines

LinesFile(lines) ==
  IF lines = <<>> THEN EmptyFile ELSE [header |-> lines[1], lines |-> Tail(lines)]

\* the number of lines of a table's first write: the header and the first
\* half of the rows, so that the second write is empty only for no row
FirstWrite(file) == 1 + Len(file.lines) \div 2

\* write(fd, chunk) at offset off: the lines there replaced, the file grown
\* where it was shorter, lines between the old end and off left blank
WriteAt(file, off, chunk) ==
  LET old == FileLines(file)
      n   == IF Len(old) > off + Len(chunk) THEN Len(old) ELSE off + Len(chunk)
  IN  LinesFile([i \in 1..n |->
        IF i > off /\ i <= off + Len(chunk) THEN chunk[i - off]
        ELSE IF i <= Len(old) THEN old[i]
        ELSE <<>>])

\* the table the merger writes
MergedFile == WriteFinal(Join(mrg.df_main, ConcatPrices(mrg.price_dfs)))

\* a directory scanned and loaded, whatever the merger does
RaceAggLoad ==
  /\ agg.pc = "idle"
  /\ \E listing \in Listings(DOMAIN dataDir) :
       LET files == ScanFiles(listing)
       IN  agg' = [pc |-> "loaded", files |-> files, dfs |-> LoadFiles(files, dataDir),
                   hourly |-> EmptyTable, skipped |-> SkippedSheets(files, dataDir)]
  /\ UNCHANGED <<gen, cust, strictParse, unreadable, dataDir, priceDir, outFile, mrg, last, merges, pipeOuts, pipeRuns>>

\* line 146, to_csv opening the path: the file is truncated
RaceAggOpen ==
  /\ agg.pc = "transformed"
  /\ outFile' = EmptyFile
  /\ agg' = [agg EXCEPT !.pc = "opened"]
  /\ UNCHANGED <<gen, cust, strictParse, unreadable, dataDir, priceDir, mrg, last, merges, pipeOuts, pipeRuns>>

\* line 146, the first write: the header and the first rows at offset 0
RaceAggWrite1 ==
  /\ agg.pc = "opened"
  /\ LET f == ToCsv(agg.hourly)
     IN  outFile' = WriteAt(outFile, 0, SubSeq(FileLines(f), 1, FirstWrite(f)))
  /\ agg' = [agg EXCEPT !.pc = "writing"]
  /\ UNCHANGED <<gen, cust, strictParse, unreadable, dataDir, priceDir, mrg, last, merges, pipeOuts, pipeRuns>>

\* line 146, the last write and the close: the rest behind the first write
RaceAggWrite2 ==
  /\ agg.pc = "writing"
  /\ LET f == ToCsv(agg.hourly)
     IN  outFile' = WriteAt(outFile, FirstWrite(f),
                            SubSeq(FileLines(f), FirstWrite(f) + 1, Len(FileLines(f))))
  /\ agg' = [agg EXCEPT !.pc = "done"]
  /\ last' = "agg"
  /\ UNCHANGED <<gen, cust, strictParse, unreadable, dataDir, priceDir, mrg, merges, pipeOuts, pipeRuns>>

\* line 8 without the file or on the file just truncated: read_csv raises
RaceMergeLoadFail ==
  /\ mrg.pc = "idle"
  /\ outFile \in {NoFile, EmptyFile}
  /\ mrg' = [MrgIdle EXCEPT !.pc = "failed"]
  /\ UNCHANGED <<gen, cust, strictParse, unreadable, dataDir, priceDir, outFile, agg, last, merges, pipeOuts, pipeRuns>>

\* lines 8-14 on the file as it is at that moment
RaceMergeLoad ==
  /\ mrg.pc = "idle"
  /\ outFile \notin {NoFile, EmptyFile}
  /\ LET raw == ReadMain(outFile)
     IN  mrg' = [MrgIdle EXCEPT !.pc = "loaded", !.raw = raw, !.df_main = DropPrice(raw)]
  /\ UNCHANGED <<gen, cust, strictParse, unreadable, dataDir, priceDir, outFile, agg, last, merges, pipeOuts, pipeRuns>>

\* line 69, to_csv opening the path: the file is truncated
RaceMergeOpen ==
  /\ mrg.pc = "priced" /\ mrg.price_dfs # <<>>
  /\ outFile' = EmptyFile
  /\ mrg' = [mrg EXCEPT !.pc = "opened"]
  /\ UNCHANGED <<gen, cust, strictParse, unreadable, dataDir, priceDir, agg, last, merges, pipeOuts, pipeRuns>>

\* line 69, the first write
RaceMergeWrite1 ==
  /\ mrg.pc = "opened"
  /\ outFile' = WriteAt(outFile, 0, SubSeq(FileLines(MergedFile), 1, FirstWrite(MergedFile)))
  /\ mrg' = [mrg EXCEPT !.pc = "writing"]
  /\ UNCHANGED <<gen, cust, strictParse, unreadable, dataDir, priceDir, agg, last, merges, pipeOuts, pipeRuns>>

\* line 69, the last write and the close
RaceMergeWrite2 ==
  /\ mrg.pc = "writing"
  /\ outFile' = WriteAt(outFile, FirstWrite(MergedFile),
                        SubSeq(FileLines(MergedFile), FirstWrite(MergedFile) + 1,
                               Len(FileLines(MergedFile))))
  /\ mrg' = [mrg EXCEPT !.pc = "done", !.said = "Updated"]
  /\ last' = "merge"
  /\ UNCHANGED <<gen, cust, strictParse, unreadable, dataDir, priceDir, agg, merges, pipeOuts, pipeRuns>>

\* the output file of an earlier aggregator run is there or not; both
\* scripts are about to start
RaceInit ==
  /\ dataDir \in {CoreDataDir} \cup {DirOf(b, FALSE) : b \in WindGasBooks}
  /\ priceDir \in {CorePriceDir, NoPriceDir}
  /\ strictParse = FALSE
  /\ unreadable = {}
  /\ outFile \in {NoFile,
                  ToCsv(Hourly(LoadFiles(ScanFiles(SortStrings(DOMAIN dataDir)), dataDir), FALSE))}
  /\ agg = AggIdle
  /\ mrg = MrgIdle
  /\ last = "none"
  /\ merges = 0
  /\ pipeOuts = {}
  /\ pipeRuns = 0
  /\ gen = GenIdle
  /\ cust = CustIdle

RaceNext ==
  \/ RaceAggLoad
  \/ AggTransform
  \/ RaceAggOpen
  \/ RaceAggWrite1
  \/ RaceAggWrite2
  \/ RaceMergeLoadFail
  \/ RaceMergeLoad
  \/ MergePrices
  \/ RaceMergeOpen
  \/ RaceMergeWrite1
  \/ RaceMergeWrite2
  \/ MergeNoPrice

SpecRace == RaceInit /\ [][RaceNext]_vars


\* ------------------------------------------------------------ claims

\* the sheets the aggregator reads, in the order it reads them
ProcessedSheets ==
  LET files == SelectSeq(ScanFiles(SortStrings(DOMAIN dataDir)), YearSupported)
  IN  Flatten([i \in 1..Len(files) |->
        SelectSeq(dataDir[files[i]], LAMBDA sh : SheetRecognized(sh) /\ HasFuel(sh))])

\* the hour (in hours since day 0) an interval cell belongs to: hour 0 of the
\* next day for a 24:00 label, the clock hour of its own day otherwise, -1
\* for a label that is no clock time
CellHour(date, label) ==
  IF Contains(label, "24:00") THEN (date + 1) * 24
  ELSE IF ParseClock(TimeStr(label)) = NaT THEN -1
  ELSE date * 24 + ParseClock(TimeStr(label)) \div 60

\* the interval cells of a sheet: one per raw row and interval label
RawCellsOf(sheet) ==
  LET labels == SelectSeq(sheet.cols,
                  LAMBDA c : c \notin {"Date", "Fuel", "Settlement Type", "Total"})
  IN  Flatten([i \in 1..Len(sheet.rows) |->
        [j \in 1..Len(labels) |->
          [Date |-> sheet.rows[i]["Date"], Fuel |-> sheet.rows[i]["Fuel"],
           Label |-> labels[j], MW |-> sheet.rows[i][labels[j]],
           Hour |-> CellHour(sheet.rows[i]["Date"], labels[j])]]])

RawCells == Flatten([i \in 1..Len(ProcessedSheets) |-> RawCellsOf(ProcessedSheets[i])])

\* the megawatts of the interval cells of fuel f that belong to hour h
HourValues(cells, f, h) ==
  LET hit == SelectSeq(cells, LAMBDA c : c.Fuel = f /\ c.Hour = h)
  IN  [i \in 1..Len(hit) |-> hit[i].MW]

IsFuelCol(c) ==
  /\ c \notin {"Load", "Emissions", "Price"}
  /\ ~(Len(c) >= 10 /\ SubSeq(c, 1, 10) = "Emissions_")

FuelCols(cols) == SelectSeq(cols, IsFuelCol)

\* the cell of column c in a row, 0 when the table has no such column
CellOr0(row, c) == IF c \in DOMAIN row.v THEN row.v[c] ELSE Num(0)

AggHasTable == agg.pc \in {"transformed", "done"}

\* C1: the megawatts under a 24:00 label of date D are in the hourly row
\* 00:00 of D + 1 (that row exists), and every fuel cell of every hourly row
\* is the sum of exactly the interval cells of its hour, so a 24:00 value is
\* in no hour of D and is not lost.
C1_Midnight ==
  AggHasTable =>
    LET cells == RawCells
        rows  == agg.hourly.rows
        fuels == FuelCols(agg.hourly.cols)
    IN  /\ \A c \in Range(cells) :
             Contains(c.Label, "24:00") =>
               \E i \in 1..Len(rows) :
                 /\ rows[i].ts = (c.Date + 1) * 1440
                 /\ rows[i].v[c.Fuel] = Num(SumSeq(HourValues(cells, c.Fuel, (c.Date + 1) * 24)))
        /\ \A i \in 1..Len(rows) :
             \A f \in Range(fuels) :
               rows[i].v[f] = Num(SumSeq(HourValues(cells, f, rows[i].ts \div 60)))

\* the raw rows of a sheet with the given date and fuel
SameKeyRows(sheet, date, fuel) ==
  SelectSeq(sheet.rows, LAMBDA r : r["Date"] = date /\ r["Fuel"] = fuel)

\* C2: in the pivoted table of every sheet, the cell of (Date, label, Fuel)
\* is the sum of the megawatts of all the sheet's rows with that Date and
\* Fuel under that label, also when there are two or more such rows.
C2_PivotSums ==
  agg.pc = "loaded" =>
    LET sheets == ProcessedSheets
    IN  /\ Len(agg.dfs) = Len(sheets)
        /\ \A k \in 1..Len(agg.dfs) :
             \A i \in 1..Len(agg.dfs[k].rows) :
               \A f \in Range(agg.dfs[k].cols) :
                 LET r   == agg.dfs[k].rows[i]
                     src == SameKeyRows(sheets[k], r.Date, f)
                 IN  r.v[f] = IF src = <<>> THEN NaN
                              ELSE Num(SumSeq([n \in 1..Len(src) |-> src[n][r.Time]]))

\* a sheet with two rows of the same date and fuel was pivoted
C2_Witness ==
  /\ agg.pc = "loaded"
  /\ \E k \in 1..Len(ProcessedSheets) :
       \E r \in Range(ProcessedSheets[k].rows) :
         /\ Len(SameKeyRows(ProcessedSheets[k], r["Date"], r["Fuel"])) >= 2
         /\ \E i \in 1..Len(agg.dfs[k].rows) :
              /\ agg.dfs[k].rows[i].Date = r["Date"]
              /\ agg.dfs[k].rows[i].Time = "23:45"
              /\ agg.dfs[k].rows[i].v[r["Fuel"]][1] >= 2 * (1 + MaxMW)

\* the hourly rows and fuels whose hour holds exactly the four quarter-hour
\* values 10, 20, 30, 40 in some order
FourQuarters(cells, f, h) ==
  LET q == HourValues(cells, f, h) IN Len(q) = 4 /\ Range(q) = {10, 20, 30, 40}

\* C3 (as the code has it): the aggregator has one aggregation, the sum, and
\* no parameter to select another; four quarter-hour values 10, 20, 30, 40
\* of a fuel inside one hour give 100 in that hour's row.
C3_SumOnly ==
  AggHasTable =>
    LET cells == RawCells
        rows  == agg.hourly.rows
    IN  /\ AGG_MODES = {"sum"}
        /\ \A i \in 1..Len(rows) :
             \A f \in Range(FuelCols(agg.hourly.cols)) :
               FourQuarters(cells, f, rows[i].ts \div 60) => rows[i].v[f] = Num(100)

\* the Wind row 10, 20, 30, 40 of hour 01:00 of day 1 was aggregated to 100
C3_Witness ==
  /\ agg.pc = "done"
  /\ FourQuarters(RawCells, "Wind", 1 * 24 + 1)
  /\ \E i \in 1..Len(agg.hourly.rows) :
       agg.hourly.rows[i].ts = 1 * 1440 + 60 /\ agg.hourly.rows[i].v["Wind"] = Num(100)

\* C3 (as the specification words it): the mode is a parameter with the two
\* values "mean" and "sum"; the four values give 25 under "mean" and 100
\* under "sum".
C3_TwoModes ==
  AggHasTable =>
    LET cells == RawCells
        rows  == agg.hourly.rows
    IN  \A i \in 1..Len(rows) :
          \A f \in Range(FuelCols(agg.hourly.cols)) :
            FourQuarters(cells, f, rows[i].ts \div 60) =>
              /\ AGG_MODES = {"mean", "sum"}
              /\ rows[i].v[f] \in {Num(25), Num(100)}

\* the table the aggregator has just written, read back from the file
Written == ReadMain(outFile)

\* the fuel types of the interval cells the aggregator read
InputFuels == {c.Fuel : c \in Range(RawCells)}

\* C4: in every row of the file the aggregator wrote, Load is the sum of the
\* row's fuel columns; the fuel columns are all the fuel types of the input;
\* Emissions, the Emissions_<fuel> columns and Price are not in the sum and
\* the sheets' Total column is no column of the table.
C4_LoadIsFuelSum ==
  agg.pc = "done" =>
    LET t     == Written
        fuels == FuelCols(t.cols)
    IN  /\ Range(fuels) = InputFuels
        /\ "Total" \notin Range(t.cols)
        /\ \A i \in 1..Len(t.rows) :
             t.rows[i].v["Load"] = SumCells([j \in 1..Len(fuels) |-> t.rows[i].v[fuels[j]]])

\* a written row with two fuels generating, emissions above zero and a Load
\* that is the two fuels' megawatts
C4_Witness ==
  /\ agg.pc = "done"
  /\ \E i \in 1..Len(Written.rows) :
       LET r == Written.rows[i]
       IN  /\ {"Coal", "Gas-CC"} \subseteq DOMAIN r.v
           /\ r.v["Coal"][1] > 0 /\ r.v["Gas-CC"][1] > 0
           /\ r.v["Emissions"][1] > 0
           /\ r.v["Load"] = CAdd(r.v["Coal"], r.v["Gas-CC"])

\* the pairs (factor key, fuel column) with the key a case-insensitive
\* substring of the column's name, as <<column, factor>>
MatchingPairs(fuels) ==
  Flatten([k \in 1..Len(EMISSION_FACTORS) |->
    LET m == SelectSeq(fuels, LAMBDA c : Contains(Lower(c), Lower(EMISSION_FACTORS[k][1])))
    IN  [j \in 1..Len(m) |-> <<m[j], EMISSION_FACTORS[k][2]>>]])

\* C5: in every hourly row Emissions is the sum, over the pairs of a factor
\* key and a fuel column whose name contains the key (case-insensitive), of
\* the column's value times the factor: Coal counts once at 1.0, Gas at 0.43,
\* Gas-CC at 0.43 and again at 0.4, a column matching no key (WSL) and Wind
\* at 0.
C5_Emissions ==
  AggHasTable =>
    LET rows  == agg.hourly.rows
        pairs == MatchingPairs(FuelCols(agg.hourly.cols))
    IN  \A i \in 1..Len(rows) :
          /\ rows[i].v["Emissions"] =
               SumCells([j \in 1..Len(pairs) |-> CMul(rows[i].v[pairs[j][1]], pairs[j][2])])
          /\ rows[i].v["Emissions"] =
               SumCells(<< CellOr0(rows[i], "Coal"),
                           CMul(CellOr0(rows[i], "Gas"), Rat(43, 100)),
                           CMul(CellOr0(rows[i], "Gas-CC"), Rat(43, 100)),
                           CMul(CellOr0(rows[i], "Gas-CC"), Rat(4, 10)) >>)

\* an hourly row with Gas-CC, WSL, Gas and Wind all generating, its
\* Emissions 0.83 of Gas-CC plus 0.43 of Gas
C5_Witness ==
  /\ agg.pc = "done"
  /\ \E i \in 1..Len(agg.hourly.rows) :
       LET r == agg.hourly.rows[i]
       IN  /\ {"Gas-CC", "WSL", "Gas", "Wind"} \subseteq DOMAIN r.v
           /\ \A c \in {"Gas-CC", "WSL", "Gas", "Wind"} : r.v[c][1] > 0
           /\ r.v["Emissions"] =
                CAdd(CMul(r.v["Gas-CC"], Rat(83, 100)), CMul(r.v["Gas"], Rat(43, 100)))

IsEmissionsSubCol(c) == Len(c) >= 10 /\ SubSeq(c, 1, 10) = "Emissions_"

\* C6: in every row of the written table Emissions is the sum of the row's
\* Emissions_<fuel> columns.
C6_SubColumnsSum ==
  agg.pc = "done" =>
    LET t   == Written
        sub == SelectSeq(t.cols, IsEmissionsSubCol)
    IN  \A i \in 1..Len(t.rows) :
          t.rows[i].v["Emissions"] = SumCells([j \in 1..Len(sub) |-> t.rows[i].v[sub[j]]])

\* the hours the price tables of a merger run hold a record for
PricedHours(price_dfs) == {p.ts : p \in Range(ConcatPrices(price_dfs))}

\* C7: after a merger run that found price data, every hour of the table it
\* read is in the file it wrote, and an hour without price record has the
\* Price it had before the run (the aggregator's 0.0).
C7_PlaceholderKept ==
  (mrg.pc = "done" /\ mrg.said = "Updated") =>
    LET before == mrg.raw.rows
        after  == Written.rows
        priced == PricedHours(mrg.price_dfs)
    IN  \A i \in 1..Len(before) :
          \E j \in 1..Len(after) :
            /\ after[j].ts = before[i].ts
            /\ before[i].ts \notin priced => after[j].v["Price"] = before[i].v["Price"]

\* C8: a merger run in which every year's price file is missing or fails to
\* load says "No price data found." and leaves the output file with the
\* content it read, the Price of every row included.
C8_NoPriceNoWrite ==
  (mrg.pc = "done" /\ mrg.warned + mrg.errors = Len(YEARS)) =>
    /\ mrg.said = "No price data found."
    /\ outFile # NoFile
    /\ Written = mrg.raw
    /\ "Price" \in Range(Written.cols)

\* a run ended with one price file that failed to load and the others
\* missing, on a file with rows
C8_Witness ==
  /\ mrg.pc = "done" /\ mrg.said = "No price data found."
  /\ mrg.errors >= 1 /\ mrg.warned >= 1
  /\ Len(mrg.raw.rows) >= 2
  /\ \A i \in 1..Len(Written.rows) : Written.rows[i].v["Price"] = Num(0)

\* the file an aggregator run over the data directory writes
FileOfWorkbooks ==
  ToCsv(Hourly(LoadFiles(ScanFiles(SortStrings(DOMAIN dataDir)), dataDir), strictParse))

\* C9: every run of the aggregator followed by the merger, on the same
\* workbooks and price files, leaves the same output file, and the file an
\* aggregator run leaves is the same in whatever order the directory lists
\* the workbooks.
C9_Repeatable ==
  /\ Cardinality(pipeOuts) <= 1
  /\ agg.pc = "done" => outFile = FileOfWorkbooks

\* two pipeline runs completed over a directory with two workbooks and
\* price data
C9_Witness ==
  /\ pipeRuns = 2 /\ Cardinality(pipeOuts) = 1
  /\ {F2020, F2021} \subseteq DOMAIN dataDir
  /\ mrg.pc = "done" /\ mrg.said = "Updated"

\* C10: the timestamps of the file the aggregator wrote increase strictly
\* from line to line.
C10_StrictlyIncreasing ==
  agg.pc = "done" =>
    \A i \in 1..(Len(outFile.lines) - 1) : outFile.lines[i][1] < outFile.lines[i + 1][1]

\* the aggregator wrote a file from two workbooks that both have day 1, one
\* with a DST-marked duplicate of label 23:45
C10_Witness ==
  /\ agg.pc = "done"
  /\ {F2020, F2021} \subseteq DOMAIN dataDir
  /\ \E c \in Range(RawCells) : c.Date = 1 /\ c.Label = "23:45 (DST)" /\ c.MW > 0
  /\ Len(outFile.lines) >= 2

\* one workbook with one month sheet holding exactly the fuels Wind and Gas
\* over four intervals of one day that lie in one clock hour, and no price
\* file of any year
EndToEndCase ==
  /\ \A y \in Range(YEARS) : priceDir[y] = NoFile
  /\ Len(ProcessedSheets) = 1
  /\ InputFuels = {"Wind", "Gas"}
  /\ Len(ProcessedSheets[1].rows) = 2
  /\ Len(RawCells) = 8
  /\ \A c, e \in Range(RawCells) : c.Hour # -1 /\ c.Hour = e.Hour /\ c.Date = e.Date

ColumnFormat ==
  LET full == Concat(agg.dfs)
  IN  IF strictParse /\ full.rows # <<>> THEN ClockFormat(ClockStr(full.rows[1].Time)) ELSE 0

\* the interval cells beside the timestamp pd.to_datetime gives them
ParsedCells(cells, fmt) ==
  [i \in 1..Len(cells) |->
     [Fuel |-> cells[i].Fuel, MW |-> cells[i].MW,
      ts |-> Timestamp(cells[i].Date, cells[i].Label, fmt)]]

\* the megawatts of the cells of fuel f that parse to a timestamp in hour h
ParsedHourValues(parsed, f, h) ==
  LET hit == SelectSeq(parsed, LAMBDA c : c.Fuel = f /\ c.ts # NaT /\ c.ts \div 60 = h)
  IN  [i \in 1..Len(hit) |-> hit[i].MW]

\* C12: an interval record whose date and normalized label do not parse to
\* a timestamp is dropped, its megawatts are in no hourly row, and the
\* records that parse are untouched: every fuel cell of every hourly row is
\* the sum of exactly the records that parse into its hour, and every
\* record that parses has its hourly row.
C12_UnparsedDropped ==
  AggHasTable =>
    LET parsed == ParsedCells(RawCells, ColumnFormat)
        rows   == agg.hourly.rows
        fuels  == FuelCols(agg.hourly.cols)
    IN  /\ \A i \in 1..Len(rows) :
             \A f \in Range(fuels) :
               rows[i].v[f] = Num(SumSeq(ParsedHourValues(parsed, f, rows[i].ts \div 60)))
        /\ \A c \in Range(parsed) :
             c.ts # NaT => \E i \in 1..Len(rows) : rows[i].ts \div 60 = c.ts \div 60

\* a record under the label "Notes" with megawatts above zero was dropped
\* beside a record of the same row that parsed and is in the table
C12_Witness ==
  /\ AggHasTable
  /\ \E c, e \in Range(RawCells) :
       /\ c.Label = "Notes" /\ c.MW > 0
       /\ Timestamp(c.Date, c.Label, ColumnFormat) = NaT
       /\ e.Label = "23:15" /\ e.Date = c.Date /\ e.Fuel = c.Fuel
       /\ \E i \in 1..Len(agg.hourly.rows) :
            /\ agg.hourly.rows[i].ts = e.Date * 1440 + 23 * 60
            /\ agg.hourly.rows[i].v[e.Fuel][1] > 0

\* the month sheets of the workbooks the aggregator opens, as (file, sheet)
MonthSheets ==
  LET files == SelectSeq(ScanFiles(SortStrings(DOMAIN dataDir)), YearSupported)
  IN  UNION {{<<f, sh>> : sh \in {x \in Range(dataDir[f]) : x.name \in Range(SHEETS)}} :
               f \in Range(files)}

\* the (Date, label) keys of the interval cells of a sheet
CellKeys(sheet) == {<<c.Date, c.Label>> : c \in Range(RawCellsOf(sheet))}

\* C13: a month sheet without a "Fuel" column is reported as skipped and
\* gives no table, while every other month sheet of every workbook gives
\* its table, holding its fuels and one row per date and interval label,
\* and its fuels are columns of the hourly table.
C13_NoFuelSkipped ==
  /\ agg.pc = "loaded" =>
        LET month  == MonthSheets
            sheets == ProcessedSheets
        IN  /\ agg.skipped = {<<p[1], p[2].name>> : p \in {q \in month : "Fuel" \notin Range(q[2].cols)}}
            /\ Len(agg.dfs) = Cardinality({q \in month : "Fuel" \in Range(q[2].cols)})
            /\ Len(agg.dfs) = Len(sheets)
            /\ \A k \in 1..Len(agg.dfs) :
                 /\ {<<r.Date, r.Time>> : r \in Range(agg.dfs[k].rows)} = CellKeys(sheets[k])
                 /\ Range(agg.dfs[k].cols) = {r["Fuel"] : r \in Range(sheets[k].rows)}
  /\ AggHasTable =>
        LET sheets == ProcessedSheets
        IN  \A k \in 1..Len(sheets) :
              \A r \in Range(sheets[k].rows) : r["Fuel"] \in Range(agg.hourly.cols)

\* the 2021 workbook's sheet "Feb" without Fuel column was skipped, and its
\* sheet "Jan" behind it and the 2020 workbook's sheet were loaded
C13_Witness ==
  /\ agg.pc = "loaded"
  /\ agg.skipped = {<<F2021, "Feb">>}
  /\ Len(agg.dfs) = 2
  /\ "Wind" \in Range(agg.dfs[1].cols)
  /\ "Wind" \notin Range(agg.dfs[2].cols)

\* the workbooks the file loop opens
OpenedFiles == Range(SelectSeq(ScanFiles(SortStrings(DOMAIN dataDir)), YearSupported))

\* C14: when a matching workbook cannot be read, the aggregator run still
\* ends with an output file written from the remaining workbooks.
C14_ReadFailureSurvived ==
  (OpenedFiles \cap unreadable # {} /\ OpenedFiles \ unreadable # {} /\ agg.pc \in {"failed", "done"}) =>
    /\ agg.pc = "done"
    /\ outFile # NoFile
    /\ Written.rows # <<>>

\* no file of the data directory has the report name, the extension and a
\* supported year
NoMatchingWorkbook ==
  \A f \in DOMAIN dataDir :
    ~(Contains(Lower(f), "intgenbyfuel") /\ EndsWith(f, ".xlsx") /\ YearSupported(f))

MONTHS == {"Jan", "Feb", "Mar", "Apr", "May", "Jun", "Jul", "Aug", "Sep", "Oct", "Nov", "Dec"}

\* the positions of a file name where four digits form a number of lo..hi
YearsAt(f, lo, hi) ==
  {i \in 1..(Len(f) - 3) :
     /\ AllDigits(SubSeq(f, i, i + 3))
     /\ lo <= ToInt(SubSeq(f, i, i + 3)) /\ ToInt(SubSeq(f, i, i + 3)) <= hi}

NamedReport(f) == Contains(Lower(f), "intgenbyfuel") /\ EndsWith(f, ".xlsx")

\* the name holds some year of 2020..2024
AnyYearSupported(f) == YearsAt(f, 2020, 2024) # {}

\* the first year of 2020..2039 the name holds is one of 2020..2024
FirstYearSupported(f) ==
  /\ YearsAt(f, 2020, 2039) # {}
  /\ (CHOOSE i \in YearsAt(f, 2020, 2039) : \A j \in YearsAt(f, 2020, 2039) : i <= j)
       \in YearsAt(f, 2020, 2024)

\* the month sheets with a Fuel column of the given files, in name order
SheetsOf(names) ==
  LET files == SortStrings(names)
  IN  Flatten([i \in 1..Len(files) |->
        SelectSeq(dataDir[files[i]],
                  LAMBDA sh : sh.name \in MONTHS /\ "Fuel" \in Range(sh.cols))])

\* the loaded tables are those of the given sheets, one for one
TablesAre(sheets) ==
  /\ Len(agg.dfs) = Len(sheets)
  /\ \A k \in 1..Len(agg.dfs) :
       /\ {<<r.Date, r.Time>> : r \in Range(agg.dfs[k].rows)} = CellKeys(sheets[k])
       /\ Range(agg.dfs[k].cols) = {r["Fuel"] : r \in Range(sheets[k].rows)}

\* C16 (amended): the tables the aggregator loads are exactly those of the
\* month sheets Jan..Dec of the files whose name contains "intgenbyfuel" in
\* any case, ends with ".xlsx", and whose FIRST embedded year of the form
\* 202x or 203x lies in 2020..2024; no other file and no other sheet gives
\* a table.
C16_FirstYearSelects ==
  agg.pc = "loaded" =>
    /\ TablesAre(SheetsOf({f \in DOMAIN dataDir : NamedReport(f) /\ FirstYearSupported(f)}))
    /\ \A p \in agg.skipped : p[2] \in MONTHS /\ NamedReport(p[1]) /\ FirstYearSupported(p[1])

\* C16 (as claimed): the same with "contains some embedded year of
\* 2020..2024" as the condition on the name.
C16_AnyYearSelects ==
  agg.pc = "loaded" =>
    TablesAre(SheetsOf({f \in DOMAIN dataDir : NamedReport(f) /\ AnyYearSupported(f)}))

\* a directory with a workbook named for 2031 and 2020, one for 2031, a text
\* file with the report name and a sheet that is no month was loaded: two
\* tables, neither holding the Solar or Coal rows of the workbooks left out
C16_Witness ==
  /\ agg.pc = "loaded"
  /\ {F2Y, F2031, FNOTE, F2020, F2021} \subseteq DOMAIN dataDir
  /\ \E sh \in Range(dataDir[F2020]) : sh.name = "Summary"
  /\ Len(agg.dfs) = 2
  /\ \A k \in 1..2 : "Solar" \notin Range(agg.dfs[k].cols) /\ "Coal" \notin Range(agg.dfs[k].cols)

OtherTotals(dir) ==
  [f \in DOMAIN dir |->
     [k \in 1..Len(dir[f]) |->
        [dir[f][k] EXCEPT !.rows =
           [i \in 1..Len(dir[f][k].rows) |->
              [c \in DOMAIN dir[f][k].rows[i] |->
                 IF c = "Settlement Type" THEN "INITIAL"
                 ELSE IF c = "Total" THEN dir[f][k].rows[i][c] + 7
                 ELSE dir[f][k].rows[i][c]]]]]]

\* C19: no interval record carries the label "Settlement Type" or "Total",
\* and with other values in these two columns the loaded tables and the
\* hourly table (fuel columns, Load, Emissions) are the same.
C19_TotalsNotMelted ==
  /\ agg.pc = "loaded" =>
        /\ \A k \in 1..Len(agg.dfs) :
             \A r \in Range(agg.dfs[k].rows) : r.Time \notin {"Settlement Type", "Total"}
        /\ agg.dfs = LoadFiles(agg.files, OtherTotals(dataDir))
  /\ AggHasTable =>
        agg.hourly = Hourly(LoadFiles(agg.files, OtherTotals(dataDir)), strictParse)

\* sheets whose rows hold a Total above zero and the Settlement Type FINAL
\* were aggregated into an hourly table with Load and Emissions
C19_Witness ==
  /\ AggHasTable
  /\ agg.hourly.rows # <<>>
  /\ {"Load", "Emissions"} \subseteq Range(agg.hourly.cols)
  /\ \A sh \in Range(ProcessedSheets) :
       \A r \in Range(sh.rows) : r["Total"] > 0 /\ r["Settlement Type"] = "FINAL"
  /\ OtherTotals(dataDir) # dataDir

\* C20: the megawatts under a label with the " (DST)" suffix are kept: the
\* hourly row of the label's own date and clock hour exists, and its cell of
\* the fuel is the sum of the interval cells of that hour, the suffixed one
\* and the one under the label without suffix among them.
C20_DstKept ==
  AggHasTable =>
    LET cells == RawCells
        rows  == agg.hourly.rows
    IN  \A c \in Range(cells) :
          Contains(c.Label, " (DST)") =>
            /\ c.Hour = CellHour(c.Date, Replace(c.Label, " (DST)", ""))
            /\ \E i \in 1..Len(rows) :
                 /\ rows[i].ts = c.Hour * 60
                 /\ rows[i].v[c.Fuel] = Num(SumSeq(HourValues(cells, c.Fuel, c.Hour)))

\* C18: when an aggregator and a merger ran at once and both wrote a table
\* with rows, the file is in the end exactly the table of the one whose
\* last write came last.
C18_LastWriterWins ==
  (/\ agg.pc = "done" /\ agg.hourly.rows # <<>>
   /\ mrg.pc = "done" /\ mrg.said = "Updated" /\ MergedFile.lines # <<>>) =>
    outFile = IF last = "agg" THEN ToCsv(agg.hourly) ELSE MergedFile

\* the price directory with the rows of every node but HB_NORTH taken out
\* of each file that has a Location column
NorthOnly(dir) ==
  [y \in DOMAIN dir |->
     IF dir[y] # NoFile /\ dir[y].readable /\ "Location" \in Range(dir[y].cols)
     THEN [dir[y] EXCEPT !.rows = SelectSeq(dir[y].rows, LAMBDA r : r["Location"] = "HB_NORTH")]
     ELSE dir[y]]

\* the time and price column of a price file
TimeColOf(file) == IF "Time_Central" \in Range(file.cols) THEN "Time_Central" ELSE "Interval Ending"

PriceColOf(file) == IF "SPP" \in Range(file.cols) THEN "SPP" ELSE "Settlement Point Price"

\* the prices of a node in one year file whose timestamp, zone dropped as
\* the merger drops it, falls in the hour starting at minute ts
NodePrices(file, node, ts) ==
  LET at(r) == r[TimeColOf(file)] + (IF file.tz THEN UTC_OFFSET ELSE 0)
      in    == SelectSeq(file.rows, LAMBDA r : r["Location"] = node /\ at(r) \div 60 = ts \div 60)
  IN  [i \in 1..Len(in) |-> in[i][PriceColOf(file)]]

\* the year files with a Location column
NodeFiles ==
  {priceDir[y] : y \in {z \in Range(YEARS) :
      priceDir[z] # NoFile /\ priceDir[z].readable /\ "Location" \in Range(priceDir[z].cols)}}

\* C21: the file a merger run writes is the file it would write with every
\* price row of another node than HB_NORTH taken out of the price files, and
\* the Price of a row that has one is the mean of the HB_NORTH prices of one
\* year file whose timestamp falls in the row's hour.
C21_NorthOnly ==
  (mrg.pc = "done" /\ mrg.said = "Updated") =>
    /\ outFile = WriteFinal(Join(mrg.df_main,
                                 ConcatPrices(LoadPrices(NorthOnly(priceDir)).price_dfs)))
    /\ \A r \in Range(Written.rows) :
         ~IsNaN(r.v["Price"]) =>
           \E f \in NodeFiles : r.v["Price"] = MeanCells(NodePrices(f, "HB_NORTH", r.ts))

\* a run on a price file that holds, in one hour of the table, an HB_NORTH
\* price and another HB_WEST price; the row of the hour has the former
C21_Witness ==
  /\ mrg.pc = "done" /\ mrg.said = "Updated"
  /\ \E r \in Range(Written.rows) : \E f \in NodeFiles :
       /\ Len(NodePrices(f, "HB_NORTH", r.ts)) = 1
       /\ Len(NodePrices(f, "HB_WEST", r.ts)) = 1
       /\ NodePrices(f, "HB_NORTH", r.ts) # NodePrices(f, "HB_WEST", r.ts)
       /\ r.v["Price"] = NodePrices(f, "HB_NORTH", r.ts)[1]

\* a run on a price file with two different HB_NORTH prices in one hour of
\* the table; the row of the hour has their mean
C21_WitnessMean ==
  /\ mrg.pc = "done" /\ mrg.said = "Updated"
  /\ \E r \in Range(Written.rows) : \E f \in NodeFiles :
       /\ NodePrices(f, "HB_NORTH", r.ts) = <<Num(1), Num(2)>>
       /\ r.v["Price"] = Rat(3, 2)

\* the HB_NORTH prices of one year file whose local wall clock falls in the
\* hour starting at minute ts
LocalNorthPrices(file, ts) ==
  LET in == SelectSeq(file.rows, LAMBDA r :
              r["Location"] = "HB_NORTH" /\ r[TimeColOf(file)] \div 60 = ts \div 60)
  IN  [i \in 1..Len(in) |-> in[i][PriceColOf(file)]]

\* C22: after a merger run on a price file with timezone-aware timestamps,
\* the row of every hour H of the table in which, by the local wall clock,
\* HB_NORTH prices of the file were recorded has their mean as Price.
C22_LocalHour ==
  (mrg.pc = "done" /\ mrg.said = "Updated") =>
    \A f \in NodeFiles :
      f.tz =>
        \A r \in Range(Written.rows) :
          LocalNorthPrices(f, r.ts) # <<>> =>
            r.v["Price"] = MeanCells(LocalNorthPrices(f, r.ts))

\* the hours of a table, each with its values in every column but Price
HourValuesButPrice(df) ==
  {<<r.ts, [c \in Range(df.cols) \ {"Price"} |-> r.v[c]]>> : r \in Range(df.rows)}

\* C23: after a merger run the file has the column names of the table the
\* run read, and the same hours, each with the values it had in every
\* column but Price (fuels, Load, Emissions, Emissions_<fuel>).
C23_OnlyPriceChanges ==
  mrg.pc = "done" =>
    /\ Range(Written.cols) = Range(mrg.raw.cols)
    /\ HourValuesButPrice(Written) = HourValuesButPrice(mrg.raw)

\* a run wrote a price into a table of two hours or more that has a fuel
\* column above zero, Load, Emissions and a column Emissions_<fuel>
C23_Witness ==
  /\ mrg.pc = "done" /\ mrg.said = "Updated"
  /\ Len(mrg.raw.rows) >= 2
  /\ {"Load", "Emissions", "Price"} \subseteq Range(mrg.raw.cols)
  /\ \E c \in Range(mrg.raw.cols) :
       /\ IsEmissionsSubCol(c)
       /\ \E r \in Range(mrg.raw.rows) : r.v[c] # Num(0)
  /\ \E i \in 1..Len(Written.rows) :
       /\ ~IsNaN(Written.rows[i].v["Price"])
       /\ Written.rows[i].v["Price"] # mrg.raw.rows[i].v["Price"]

\* the timestamps of the rows of a table, in order
HoursOf(df) == [i \in 1..Len(df.rows) |-> df.rows[i].ts]

\* C24: after a merger run that wrote the file, the file has one row for
\* every hour of the table the run read: as many rows, and no hour twice,
\* also when two year files hold price records of the same hour.
C24_OneRowPerHour ==
  (mrg.pc = "done" /\ mrg.said = "Updated" /\ merges = 1) =>
    /\ Len(Written.rows) = Len(mrg.raw.rows)
    /\ \A i, j \in 1..Len(Written.rows) :
         Written.rows[i].ts = Written.rows[j].ts => i = j

\* C25: a merger run that follows a merger run, with no aggregator run in
\* between, leaves the file as it found it: the same rows with the same
\* Price values.
C25_Idempotent ==
  (mrg.pc = "done" /\ merges = 2 /\ ~mrg.afterAgg) =>
    outFile = WriteFinal(mrg.raw)

\* the years whose price file is readable and has no Location column
NoLocationYears ==
  {y \in Range(YEARS) :
     priceDir[y] # NoFile /\ priceDir[y].readable /\ "Location" \notin Range(priceDir[y].cols)}

\* the price directory without these files
WithoutNoLocation(dir) == [y \in DOMAIN dir |-> IF y \in NoLocationYears THEN NoFile ELSE dir[y]]

\* C26: the price frames the year loop collects are those it collects
\* without the year files that have no Location column, every such file
\* ends in a reported error, and the written file is the one written
\* without them: no frame of another year is appended in their place.
C26_NoLocationNothing ==
  mrg.pc \in {"priced", "done"} =>
    LET st == LoadPrices(WithoutNoLocation(priceDir))
    IN  /\ mrg.price_dfs = st.price_dfs
        /\ mrg.errors = st.errors + Cardinality(NoLocationYears)
        /\ Len(mrg.price_dfs) <= Len(YEARS) - Cardinality(NoLocationYears) - mrg.warned
        /\ (mrg.pc = "done" /\ mrg.said = "Updated") =>
             outFile = WriteFinal(Join(mrg.df_main, ConcatPrices(st.price_dfs)))

\* a run wrote the file from the 2020 prices alone although the 2021 file,
\* without Location column, came after them in the loop
C26_Witness ==
  /\ mrg.pc = "done" /\ mrg.said = "Updated"
  /\ NoLocationYears = {2021}
  /\ priceDir[2020] # NoFile
  /\ Len(mrg.price_dfs) = 1 /\ mrg.errors = 1
  /\ Len(Written.rows) = Len(mrg.raw.rows)
  /\ \E r \in Range(Written.rows) : ~IsNaN(r.v["Price"])

\* the megawatts of the interval cells of fuel f whose timestamp parses
ParsedValues(parsed, f) ==
  LET hit == SelectSeq(parsed, LAMBDA c : c.Fuel = f /\ c.ts # NaT)
  IN  [i \in 1..Len(hit) |-> hit[i].MW]

\* the sum of column c over the rows of a table, 0 without such a column
ColumnTotal(df, c) == SumCells([i \in 1..Len(df.rows) |-> CellOr0(df.rows[i], c)])

\* C27: for every fuel of the input, the sum of the fuel's column over all
\* hourly rows is the sum of the megawatts of all interval cells of the fuel
\* whose timestamp parses, and the sum of Load over all rows is the sum of
\* these megawatts over all fuels.
C27_EnergyConserved ==
  AggHasTable =>
    LET parsed == ParsedCells(RawCells, ColumnFormat)
        fuels  == {parsed[i].Fuel : i \in 1..Len(parsed)}
        kept   == SelectSeq(parsed, LAMBDA c : c.ts # NaT)
    IN  /\ \A f \in fuels :
             ColumnTotal(agg.hourly, f) = Num(SumSeq(ParsedValues(parsed, f)))
        /\ ColumnTotal(agg.hourly, "Load") = Num(SumSeq([i \in 1..Len(kept) |-> kept[i].MW]))

\* a table of two hours or more was built from two fuels with megawatts
\* above zero, with two cells or more of one fuel in one hour and a cell
\* that did not parse
C27_Witness ==
  /\ AggHasTable
  /\ Len(agg.hourly.rows) >= 2
  /\ LET parsed == ParsedCells(RawCells, ColumnFormat)
     IN  /\ \E c, e \in Range(parsed) :
              /\ c.Fuel # e.Fuel /\ c.ts # NaT /\ e.ts # NaT /\ c.MW > 0 /\ e.MW > 0
              /\ Len(ParsedHourValues(parsed, c.Fuel, c.ts \div 60)) >= 2
         /\ \E c \in Range(parsed) : c.ts = NaT /\ c.MW > 0
  /\ ColumnTotal(agg.hourly, "Load")[1] > 0

\* the clock hours into which an interval cell parses
ParsedHours(parsed) == {parsed[i].ts \div 60 : i \in {j \in 1..Len(parsed) : parsed[j].ts # NaT}}

\* C28: the hourly table has exactly one row for every clock hour from the
\* earliest to the latest parsed timestamp, in order, and the row of an hour
\* into which no interval cell parses has 0 in every fuel column, in Load
\* and in Emissions.
C28_NoGaps ==
  AggHasTable =>
    LET hours == ParsedHours(ParsedCells(RawCells, ColumnFormat))
        rows  == agg.hourly.rows
    IN  IF hours = {} THEN rows = <<>>
        ELSE LET lo == CHOOSE h \in hours : \A g \in hours : h <= g
                 hi == CHOOSE h \in hours : \A g \in hours : g <= h
             IN  /\ Len(rows) = hi - lo + 1
                 /\ \A k \in 1..Len(rows) :
                      /\ rows[k].ts = (lo + k - 1) * 60
                      /\ (lo + k - 1) \notin hours =>
                           /\ \A f \in Range(FuelCols(agg.hourly.cols)) : rows[k].v[f] = Num(0)
                           /\ rows[k].v["Load"] = Num(0)
                           /\ rows[k].v["Emissions"] = Num(0)

\* a table with a row of megawatts and emissions above zero, a row of an
\* hour without interval cell after it and a row with megawatts after that
C28_Witness ==
  /\ AggHasTable
  /\ LET hours == ParsedHours(ParsedCells(RawCells, ColumnFormat))
         rows  == agg.hourly.rows
     IN  \E i, j, k \in 1..Len(rows) :
           /\ i < j /\ j < k
           /\ rows[i].ts \div 60 \in hours /\ rows[i].v["Emissions"][1] > 0
           /\ rows[j].ts \div 60 \notin hours /\ rows[j].v["Load"] = Num(0)
           /\ rows[k].ts \div 60 \in hours /\ rows[k].v["Load"][1] > 0

\* ------------------------------------------------------------ separate_generation_data.py

MaxProjects == 3

\* the pipeline at rest, its directories empty: the state of the variables
\* of the two data scripts while another script is looked at
PipelineAtRest ==
  /\ strictParse = FALSE
  /\ dataDir = JunkDir
  /\ unreadable = {}
  /\ priceDir = NoPriceDir
  /\ outFile = NoFile
  /\ agg = AggIdle
  /\ mrg = MrgIdle
  /\ last = "none"
  /\ merges = 0
  /\ pipeOuts = {}
  /\ pipeRuns = 0

\* one entry of generation_data.json as get_generation_projects.py writes
\* it (the keys the script reads), and one without the key "status"
GenProject(name, technology, mw, status) ==
  [project_name |-> name, technology |-> technology, capacity_mw |-> mw, status |-> status]

NoStatusProject(name, technology, mw) ==
  [project_name |-> name, technology |-> technology, capacity_mw |-> mw]

GEN_STATUSES == {"Operational", "Queue", "operational", "Cancelled"}

GenProjects ==
  {GenProject("Roadrunner Solar", "Solar", 400, s) : s \in GEN_STATUSES}
  \cup {GenProject("Sandy Creek", "Coal", 900, s) : s \in GEN_STATUSES}
  \cup {NoStatusProject("Roadrunner Solar", "Solar", 400),
        NoStatusProject("Sandy Creek", "Coal", 900)}

\* project.get('status') == status
StatusIs(project, status) == "status" \in DOMAIN project /\ project["status"] = status

\* one pass of the loop with the project put in front of its list
SeparateStepInFront(st, project) ==
  IF StatusIs(project, "Operational")
  THEN [st EXCEPT !.operational = <<project>> \o @]
  ELSE IF StatusIs(project, "Queue")
  THEN [st EXCEPT !.queue = <<project>> \o @]
  ELSE [st EXCEPT !.warnings = Append(@, project["project_name"])]

\* lines 30-35: one pass of the loop over all_projects
SeparateStep(st, project) ==
  IF StatusIs(project, "Operational")
  THEN [st EXCEPT !.operational = Append(@, project)]
  ELSE IF StatusIs(project, "Queue")
  THEN [st EXCEPT !.queue = Append(@, project)]
  ELSE [st EXCEPT !.warnings = Append(@, project["project_name"])]

RECURSIVE SeparateLoop(_, _, _)
\* lines 26-35
SeparateLoop(st, all_projects, k) ==
  IF k > Len(all_projects) THEN st
  ELSE SeparateLoop(SeparateStep(st, all_projects[k]), all_projects, k + 1)

\* lines 43-44: sum(p.get('capacity_mw', 0) for p in projects)
CapacityOf(projects) == SumSeq([i \in 1..Len(projects) |-> projects[i]["capacity_mw"]])

\* lines 51-54 and 60-63: technology -> capacity
TechBreakdown(projects) ==
  [t \in {projects[i]["technology"] : i \in 1..Len(projects)} |->
     CapacityOf(SelectSeq(projects, LAMBDA p : p["technology"] = t))]

\* a JSON file that is not there, and one holding a list of projects
NoJson == [exists |-> FALSE, projects |-> <<>>]

JsonOf(projects) == [exists |-> TRUE, projects |-> projects]

\* the input file is there or not; no output file yet
GenInit ==
  /\ PipelineAtRest
  /\ cust = CustIdle
  /\ \E input \in {NoJson} \cup {JsonOf(ps) : ps \in SeqsUpTo(GenProjects, MaxProjects)} :
       gen = [pc |-> "start", input_file |-> input, operational |-> <<>>, queue |-> <<>>,
              warnings |-> <<>>, operational_capacity |-> 0, queue_capacity |-> 0,
              operational_technology |-> <<>>, queue_technology |-> <<>>,
              operational_file |-> NoJson, queue_file |-> NoJson]

\* line 22: open(input_file) raises, nothing is written
SeparateNoInput ==
  /\ gen.pc = "start" /\ ~gen.input_file.exists
  /\ gen' = [gen EXCEPT !.pc = "raised"]
  /\ UNCHANGED <<cust, strictParse, unreadable, dataDir, priceDir, outFile, agg, mrg, last, merges,
                 pipeOuts, pipeRuns>>

\* lines 20-85: the whole call
SeparateGenerationData ==
  /\ gen.pc = "start" /\ gen.input_file.exists
  /\ LET st == SeparateLoop([operational |-> <<>>, queue |-> <<>>, warnings |-> <<>>],
                            gen.input_file.projects, 1)
     IN  gen' = [gen EXCEPT !.pc = "returned",
                            !.operational = st.operational,
                            !.queue = st.queue,
                            !.warnings = st.warnings,
                            !.operational_capacity = CapacityOf(st.operational),
                            !.queue_capacity = CapacityOf(st.queue),
                            !.operational_technology = TechBreakdown(st.operational),
                            !.queue_technology = TechBreakdown(st.queue),
                            !.operational_file = JsonOf(st.operational),
                            !.queue_file = JsonOf(st.queue)]
  /\ UNCHANGED <<cust, strictParse, unreadable, dataDir, priceDir, outFile, agg, mrg, last, merges,
                 pipeOuts, pipeRuns>>

GenNext ==
  \/ SeparateNoInput
  \/ SeparateGenerationData

SpecSeparate == GenInit /\ [][GenNext]_vars

\* C29: after a call of separate_generation_data the operational list is
\* the input's projects of status "Operational" in the input's order, the
\* queue list those of status "Queue" in the input's order, no project is
\* in both lists, a project of any other status or of none is in neither,
\* and the two files hold the two lists.
C29_Partition ==
  gen.pc = "returned" =>
    LET input   == gen.input_file.projects
        isOp(p) == "status" \in DOMAIN p /\ p["status"] = "Operational"
        isQu(p) == "status" \in DOMAIN p /\ p["status"] = "Queue"
    IN  /\ gen.operational = SelectSeq(input, isOp)
        /\ gen.queue = SelectSeq(input, isQu)
        /\ Range(gen.operational) \cap Range(gen.queue) = {}
        /\ \A p \in Range(input) :
             (~isOp(p) /\ ~isQu(p)) => p \notin Range(gen.operational) \cup Range(gen.queue)
        /\ Len(gen.operational) + Len(gen.queue) + Len(gen.warnings) = Len(input)
        /\ gen.operational_file = JsonOf(gen.operational)
        /\ gen.queue_file = JsonOf(gen.queue)

\* a call on three projects: two different operational ones with one of
\* another status between them
C29_Witness ==
  /\ gen.pc = "returned"
  /\ Len(gen.input_file.projects) = 3
  /\ Len(gen.operational) = 2 /\ gen.operational[1] # gen.operational[2]
  /\ gen.input_file.projects[1] = gen.operational[1]
  /\ gen.input_file.projects[3] = gen.operational[2]
  /\ "status" \in DOMAIN gen.input_file.projects[2]
  /\ gen.input_file.projects[2]["status"] = "operational"

\* ------------------------------------------------------------ get_large_customers.py

\* lines 83, 86 and 89: the hubs in the order they are tried, each with
\* its keyword list
HUB_KEYS ==
  << <<"Houston",
     <<
       "houston", "baytown", "pasadena", "deer park", "texas city", "galveston",
       "sugar land", "katy", "freeport", "brazoria", "angleton", "alvin", "pearland",
       "league city", "chocolate bayou", "quintana", "bolivar", "webster",
       "friendswood", "conroe", "spring", "woodlands", "kingwood", "humble",
       "rosenberg", "bay city", "wharton", "sweeny" >> >>,
     <<"South",
     <<
       "san antonio", "corpus christi", "austin", "taylor", "round rock",
       "san marcos", "new braunfels", "seguin", "victoria", "laredo", "mcallen",
       "brownsville", "harlingen", "edinburg", "pharr", "mission", "weslaco",
       "kingsville", "point comfort", "port lavaca", "kerrville", "fredericksburg",
       "buda", "kyle", "georgetown", "leander", "cedar park", "pflugerville",
       "bastrop", "luling", "schertz", "cibolo", "boerne", "eagle pass", "del rio",
       "uvalde", "beeville", "alice", "portland", "rockport", "aransas", "ingleside" >> >>,
     <<"West",
     <<
       "odessa", "midland", "abilene", "san angelo", "big spring", "sweetwater",
       "lubbock", "amarillo", "plainview", "levelland", "snyder", "childress",
       "fort stockton", "pecos", "monahans", "andrews", "seminole", "lamesa",
       "brownfield", "hereford", "canyon", "dumas", "pampa", "borger", "dalhart",
       "perryton", "wink", "mentone", "pyote", "garden city", "upton", "reagan",
       "crockett", "val verde", "edwards", "kimble", "mason", "mcculloch", "concho",
       "menard", "schleicher", "sutton", "terrell", "brewster", "presidio",
       "jeff davis", "culberson", "hudspeth", "el paso" >> >> >>

\* lines 81-92: the hub of the first list with a keyword that is a
\* substring of the lowercased location, "North" when there is none
assign_hub(loc) ==
  LET l   == Lower(loc)
      hit == {k \in 1..Len(HUB_KEYS) :
                \E i \in 1..Len(HUB_KEYS[k][2]) : Contains(l, HUB_KEYS[k][2][i])}
  IN  IF hit = {} THEN "North"
      ELSE HUB_KEYS[CHOOSE k \in hit : \A j \in hit : k <= j][1]

\* the cities a customer is constructed with: every keyword as it is, and
\* cities of the customer lists in their own spelling
CITIES ==
  UNION {Range(HUB_KEYS[k][2]) : k \in 1..Len(HUB_KEYS)}
  \cup {"Big Spring", "Houston", "Corpus Christi", "Dallas", "Texas", "Dickens Co", "Upton Co"}

\* a customer about to be constructed with one of the cities
CustInit ==
  /\ PipelineAtRest
  /\ gen = GenIdle
  /\ \E city \in CITIES : cust = [pc |-> "new", city |-> city, hub |-> ""]

\* line 74: self.hub = self.assign_hub(city)
AssignHub ==
  /\ cust.pc = "new"
  /\ cust' = [cust EXCEPT !.pc = "constructed", !.hub = assign_hub(cust.city)]
  /\ UNCHANGED <<gen, strictParse, unreadable, dataDir, priceDir, outFile, agg, mrg, last, merges,
                 pipeOuts, pipeRuns>>

SpecHub == CustInit /\ [][AssignHub]_vars

\* C30: a customer whose city, in lower case, is one of the keywords of a
\* hub list has that hub: "Houston" for a Houston keyword, "South" for a
\* South keyword, "West" for a West keyword such as "big spring".
C30_KeywordHub ==
  cust.pc = "constructed" =>
    \A k \in 1..Len(HUB_KEYS) :
      Lower(cust.city) \in Range(HUB_KEYS[k][2]) => cust.hub = HUB_KEYS[k][1]

====
